---- MODULE Spec2Model ----
(***************************************************************************)
(* Webhook ingestion backend (fratza/webhook): the BrowseAI webhook        *)
(* pipeline of WebhookService (src/src/services/webhook.service.js, the    *)
(* first class of the file) over a Firestore-like document store, and the  *)
(* pure transforms it is built from (document key derivation, field        *)
(* cleaning, item normalisation, deduplication, merge).                    *)
(*                                                                         *)
(* JSON values are tagged records:                                         *)
(*   [kind |-> "null"]                                                     *)
(*   [kind |-> "str", s |-> <string>]                                      *)
(*   [kind |-> "arr", items |-> <sequence of JSON values>]                 *)
(*   [kind |-> "obj", f |-> <function from key strings to JSON values>]    *)
(* A string that the code takes apart (a URL) is a sequence of tokens,     *)
(* each token a substring of the text.                                     *)
(***************************************************************************)
EXTENDS Integers, Sequences, FiniteSets, TLC

VARIABLES
    store,   \* [collection -> [document key -> NoDoc or the stored JSON document]]
    calls,   \* [call id -> the state of one processBrowseAIWebhook invocation]
    op,      \* the pure operation last applied ("input" before, "none" when unused)
    arg,     \* its argument
    ret      \* its result

vars == <<store, calls, op, arg, ret>>

---------------------------------------------------------------------------
(* JSON values *)

JNull == [kind |-> "null"]
JStr(s) == [kind |-> "str", s |-> s]
JArr(xs) == [kind |-> "arr", items |-> xs]
JObj(f) == [kind |-> "obj", f |-> f]
EmptyObj == JObj(<<>>)

\* Array.isArray(v)
IsArray(v) == v.kind = "arr"
\* typeof v === "object" (true of null, arrays and objects)
TypeofObject(v) == v.kind \in {"null", "arr", "obj"}
\* JavaScript truthiness of a JSON value
Truthy(v) == CASE v.kind \in {"null", "undefined"} -> FALSE
               [] v.kind = "str" -> v.s /= ""
               [] v.kind = "num" -> v.n /= 0
               [] OTHER -> TRUE
\* key in obj
HasKey(v, k) == v.kind = "obj" /\ k \in DOMAIN v.f
\* obj[k] is present and truthy
HasTruthy(v, k) == HasKey(v, k) /\ Truthy(v.f[k])

RECURSIVE JoinStr(_, _)
\* Array.prototype.join on a sequence of strings
JoinStr(ss, sep) ==
    IF Len(ss) = 0 THEN ""
    ELSE IF Len(ss) = 1 THEN ss[1]
    ELSE ss[1] \o sep \o JoinStr(Tail(ss), sep)

RECURSIVE Stringify(_)
\* String(v), as a template literal `${v}` renders it
Stringify(v) ==
    CASE v.kind = "str" -> v.s
      [] v.kind = "null" -> "null"
      [] v.kind = "arr" ->
            JoinStr([i \in 1..Len(v.items) |->
                        IF v.items[i].kind = "null" THEN "" ELSE Stringify(v.items[i])], ",")
      [] OTHER -> "[object Object]"

MapSeq(Op(_), xs) == [i \in 1..Len(xs) |-> Op(xs[i])]

\* the last n elements of a sequence: Array.prototype.slice(-n)
SliceLast(xs, n) ==
    IF Len(xs) <= n THEN xs ELSE SubSeq(xs, Len(xs) - n + 1, Len(xs))

---------------------------------------------------------------------------
(* URL text and its parsing (new URL(url), WHATWG URL, no base URL).         *)
(* Domain: token sequences in which a scheme token, if any, comes first.   *)

SchemeTokens == {"https://", "http://"}
LowerLabels ==
    {"www", "espn", "com", "not", "a", "url", "unknown", "nfl", "localhost", "olemisssports"}
UpperLabels == {"ESPN"}
\* labels that are decimal numbers below 256
NumericLabels == {"0", "1", "127"}
\* "" is the empty label, as in the host "espn.com."
LabelTokens == LowerLabels \cup UpperLabels \cup NumericLabels \cup {""}
Dot == "."
Space == " "
PathTokens == {"/nfl"}
QueryTokens == {"?x=1"}

\* a JavaScript string argument given as its tokens, or undefined
UStr(toks) == [kind |-> "str", toks |-> toks]
Undefined == [kind |-> "undefined"]
UnknownUrl == UStr(<<"unknown">>)
\* the text of a token sequence
Text(toks) == JoinStr(toks, "")

\* String.prototype.toLowerCase on one token
LowerToken(t) == IF t = "ESPN" THEN "espn" ELSE t

\* the text of a path token after its leading slash
PathLabel(t) == IF t = "/nfl" THEN "nfl" ELSE t

RECURSIVE StripLeading(_)
StripLeading(toks) ==
    IF Len(toks) > 0 /\ Head(toks) = Space THEN StripLeading(Tail(toks)) ELSE toks

RECURSIVE StripTrailing(_)
StripTrailing(toks) ==
    IF Len(toks) > 0 /\ toks[Len(toks)] = Space
    THEN StripTrailing(SubSeq(toks, 1, Len(toks) - 1)) ELSE toks

RECURSIVE HostEnd(_, _)
\* index of the last token of the host: the host ends before the first path or
\* query token
HostEnd(toks, i) ==
    IF i > Len(toks) \/ toks[i] \in PathTokens \cup QueryTokens THEN i - 1
    ELSE HostEnd(toks, i + 1)

RECURSIVE SplitDots(_, _, _)
\* String.prototype.split(".") on a token sequence: the labels, each the
\* concatenation of the tokens between two dots
SplitDots(toks, cur, acc) ==
    IF Len(toks) = 0 THEN Append(acc, cur)
    ELSE IF Head(toks) = Dot THEN SplitDots(Tail(toks), "", Append(acc, cur))
    ELSE SplitDots(Tail(toks), cur \o Head(toks), acc)

\* the labels of a host without its one trailing empty label, if it has one
WithoutTrailingDot(parts) ==
    IF Len(parts) > 1 /\ parts[Len(parts)] = "" THEN SubSeq(parts, 1, Len(parts) - 1)
    ELSE parts

\* the host ends in a number: the host parser reads it as an IPv4 address
EndsInNumber(parts) ==
    WithoutTrailingDot(parts)[Len(WithoutTrailingDot(parts))] \in NumericLabels

\* the IPv4 parser on the labels of a host that ends in a number: failure
\* unless there are at most four parts, all numbers; the last part fills the
\* low bytes (every number here is below 256), and the address is serialised
\* as four decimal parts
Ipv4Parts(parts) ==
    LET n == Len(parts) IN
    IF n > 4 \/ \E i \in 1..n : parts[i] \notin NumericLabels THEN <<>>
    ELSE [i \in 1..4 |-> IF i = 4 THEN parts[n]
                          ELSE IF i < n THEN parts[i] ELSE "0"]

\* the parsed host, from its lower-cased labels
ParsedHost(parts) ==
    IF ~EndsInNumber(parts) THEN [ok |-> TRUE, hostname |-> JoinStr(parts, "."), parts |-> parts]
    ELSE IF Ipv4Parts(WithoutTrailingDot(parts)) = <<>> THEN [ok |-> FALSE]
    ELSE [ok |-> TRUE, hostname |-> JoinStr(Ipv4Parts(WithoutTrailingDot(parts)), "."),
          parts |-> Ipv4Parts(WithoutTrailingDot(parts))]

\* new URL(text): [ok |-> FALSE] when the constructor throws, else the parsed
\* hostname (lower-cased by the host parser) and its split on ".". Leading and
\* trailing spaces are stripped; without a scheme there is no base to resolve
\* against; slashes after a special scheme are skipped, so a path that follows
\* the scheme directly is read as the host; a special scheme needs a non-empty
\* host; a space is a forbidden host code point; a host that ends in a number
\* is an IPv4 address.
ParseURL(toks) ==
    LET t == StripTrailing(StripLeading(toks)) IN
    IF Len(t) = 0 \/ Head(t) \notin SchemeTokens THEN [ok |-> FALSE]
    ELSE LET r == Tail(t)
             a == IF Len(r) > 0 /\ Head(r) \in PathTokens
                  THEN <<PathLabel(Head(r))>> \o Tail(r) ELSE r
             host == SubSeq(a, 1, HostEnd(a, 1))
         IN IF Text(host) = ""
               \/ \E i \in 1..Len(host) : host[i] \notin LabelTokens \cup {Dot}
            THEN [ok |-> FALSE]
            ELSE ParsedHost(SplitDots(MapSeq(LowerToken, host), "", <<>>))

\* utils/browseai.js extractDomainIdentifier: a scheme is prepended when the
\* text has none, the key is the second-to-last label (prefixed by the first
\* label of a non-www subdomain), and an unparsable text is sanitised instead
\* of mapped to "unknown".
SanitizeToken(t) ==
    CASE t = "https://" -> "https---"
      [] t = "http://" -> "http---"
      [] t = "/nfl" -> "-nfl"
      [] t = "?x=1" -> "-x-1"
      [] t \in {Dot, Space} -> "-"
      [] OTHER -> LowerToken(t)

utilExtractDomainIdentifier(url) ==
    IF url.kind = "undefined" \/ Len(url.toks) = 0 \/ Text(url.toks) = "" THEN "unknown"
    ELSE LET processedUrl == IF Head(url.toks) \in SchemeTokens THEN url.toks
                             ELSE <<"https://">> \o url.toks
             urlObj == ParseURL(processedUrl)
         IN IF ~urlObj.ok THEN Text(MapSeq(SanitizeToken, url.toks))
            ELSE LET parts == urlObj.parts
                     n == Len(parts)
                 IN IF n >= 2
                    THEN IF n > 2 /\ parts[1] /= "www"
                         THEN parts[1] \o "-" \o parts[n - 1]
                         ELSE parts[n - 1]
                    ELSE urlObj.hostname

\* extractDomainIdentifier taking the first two labels instead of the last two
extractDomainIdentifier_FirstTwo(url) ==
    IF url.kind = "undefined" \/ Text(url.toks) = "" \/ Text(url.toks) = "unknown"
    THEN "unknown"
    ELSE LET urlObj == ParseURL(url.toks) IN
         IF ~urlObj.ok THEN "unknown"
         ELSE IF Len(urlObj.parts) >= 2 THEN JoinStr(SubSeq(urlObj.parts, 1, 2), ".")
         ELSE urlObj.hostname

\* extractDomainIdentifier returning the text itself when it does not parse
extractDomainIdentifier_RawOnFailure(url) ==
    IF url.kind = "undefined" \/ Text(url.toks) = "" \/ Text(url.toks) = "unknown"
    THEN "unknown"
    ELSE LET urlObj == ParseURL(url.toks) IN
         IF ~urlObj.ok THEN Text(url.toks)
         ELSE IF Len(urlObj.parts) >= 2 THEN JoinStr(SliceLast(urlObj.parts, 2), ".")
         ELSE urlObj.hostname

\* WebhookService.extractDomainIdentifier
extractDomainIdentifier(url) ==
    IF url.kind = "undefined" \/ Text(url.toks) = "" \/ Text(url.toks) = "unknown"
    THEN "unknown"
    ELSE LET urlObj == ParseURL(url.toks) IN
         IF ~urlObj.ok THEN "unknown"
         ELSE IF Len(urlObj.parts) >= 2 THEN JoinStr(SliceLast(urlObj.parts, 2), ".")
         ELSE urlObj.hostname

\* processBrowseAIWebhook, from the input parameters to the document key:
\* params is "absent" (no task.inputParameters), "empty" ({}) or "first" (url is
\* the value of the first entry)
webhookOriginUrl(params, url) ==
    LET firstValue == IF params = "first" THEN url ELSE Undefined IN
    IF firstValue.kind = "undefined" \/ Text(firstValue.toks) = "" THEN UnknownUrl
    ELSE firstValue

webhookDocName(params, url) == extractDomainIdentifier(webhookOriginUrl(params, url))

---------------------------------------------------------------------------
(* Deduplication (WebhookService.generateItemKey, deduplicateItems,        *)
(* deduplicateAgainstExisting)                                             *)

\* this.keyFields
keyFields == <<"Title", "EventDate", "Location", "Sports">>

\* generateItemKey: "field:value" of the key fields whose value is truthy,
\* joined by "|"
generateItemKey(item) ==
    LET filteredFields == SelectSeq(keyFields, LAMBDA field : HasTruthy(item, field))
    IN JoinStr([i \in 1..Len(filteredFields) |->
                   filteredFields[i] \o ":" \o Stringify(item.f[filteredFields[i]])], "|")

RECURSIVE dedupLoop(_, _, _)
\* the for-loop of deduplicateItems: uniqueMap is the set of keys seen
dedupLoop(items, uniqueMap, result) ==
    IF Len(items) = 0 THEN result
    ELSE LET uniqueKey == generateItemKey(Head(items)) IN
         IF uniqueKey \notin uniqueMap
         THEN dedupLoop(Tail(items), uniqueMap \cup {uniqueKey}, Append(result, Head(items)))
         ELSE dedupLoop(Tail(items), uniqueMap, result)

RECURSIVE dedupLoop_LastWins(_, _)
\* a deduplication that keeps the last occurrence of each key
dedupLoop_LastWins(items, result) ==
    IF Len(items) = 0 THEN result
    ELSE LET uniqueKey == generateItemKey(Head(items)) IN
         IF \E i \in 1..Len(Tail(items)) : generateItemKey(Tail(items)[i]) = uniqueKey
         THEN dedupLoop_LastWins(Tail(items), result)
         ELSE dedupLoop_LastWins(Tail(items), Append(result, Head(items)))

deduplicateItems_LastWins(items) ==
    IF Len(items) <= 1 THEN items ELSE dedupLoop_LastWins(items, <<>>)

\* deduplicateItems on an array
deduplicateItems(items) ==
    IF Len(items) <= 1 THEN items ELSE dedupLoop(items, {}, <<>>)

\* deduplicateAgainstExisting on two arrays
deduplicateAgainstExisting(newItems, existingItems) ==
    IF Len(newItems) = 0 \/ Len(existingItems) = 0 THEN newItems
    ELSE LET existingMap == {generateItemKey(existingItems[i]) : i \in 1..Len(existingItems)}
         IN SelectSeq(newItems, LAMBDA item : generateItemKey(item) \notin existingMap)

---------------------------------------------------------------------------
(* Field cleaning and item normalisation (WebhookService.cleanDataFields,  *)
(* processArrayField, processEventDate)                                    *)

\* a value that is not there: undefined
JUndef == [kind |-> "undefined"]
\* the outcome of a transform that throws
JThrow == [kind |-> "throw"]
IsThrow(v) == v.kind = "throw"

\* obj?.[k]
Lookup(v, k) == IF HasKey(v, k) THEN v.f[k] ELSE JUndef

\* the position test without toLowerCase()
IsPositionKey_CaseSensitive(k) == k = "position"

\* key.toLowerCase() === "position"
IsPositionKey(k) == k \in {"position", "Position", "POSITION"}

\* key.toLowerCase().replace(/\s+/g, "-")
SlugOf(key) ==
    CASE key = "Headlines" -> "headlines"
      [] key = "Ole Sport" -> "ole-sport"
      [] key = "Summary" -> "summary"
      [] key = "Shot" -> "shot"
      [] key = "Schedule" -> "schedule"
      [] key = "Tags" -> "tags"
      [] OTHER -> key

\* the text of an image URL as tokens, every "?" a token of its own
ImageUrlTokens(s) ==
    CASE s = "img.png?w=1" -> <<"img.png", "?", "w=1">>
      [] s = "img.png?w=1?h=2" -> <<"img.png", "?", "w=1", "?", "h=2">>
      [] s = "?w=1" -> <<"?", "w=1">>
      [] s = "img.png?" -> <<"img.png", "?">>
      [] OTHER -> <<s>>

RECURSIVE UntilQuestionMark(_)
\* the tokens before the first "?"
UntilQuestionMark(toks) ==
    IF Len(toks) = 0 \/ Head(toks) = "?" THEN <<>>
    ELSE <<Head(toks)>> \o UntilQuestionMark(Tail(toks))

\* the image URL kept whole
BeforeQuery_Whole(s) == s

\* imageUrl.split("?")[0]
BeforeQuery(s) == Text(UntilQuestionMark(ImageUrlTokens(s)))

\* originUrl.includes("olemisssports.com")
IncludesOleMiss(toks) ==
    \E i \in 1..(Len(toks) - 2) :
        toks[i] = "olemisssports" /\ toks[i + 1] = Dot /\ toks[i + 2] = "com"

\* the text of an EventDate as tokens: month names, day numbers, blanks,
\* newlines, dashes, parenthesised groups and other words
EventDateTokens(s) ==
    CASE s = "Jun 13 (Fri) - Jun 23 (Mon)" ->
            <<"Jun", " ", "13", " ", "(Fri)", " ", "-", " ", "Jun", " ", "23", " ", "(Mon)">>
      [] s = "Jun 13\n(Fri)\n-\nJun 23\n(Mon)" ->
            <<"Jun", " ", "13", "\n", "(Fri)", "\n", "-", "\n", "Jun", " ", "23", "\n", "(Mon)">>
      [] s = "May 28 (Wed) - May 31 (Sat)" ->
            <<"May", " ", "28", " ", "(Wed)", " ", "-", " ", "May", " ", "31", " ", "(Sat)">>
      [] s = "Jun 13-Jul 5" -> <<"Jun", " ", "13", "-", "Jul", " ", "5">>
      [] s = "Jun 5" -> <<"Jun", " ", "5">>
      [] s = "June" -> <<"Jun", "e">>
      [] OTHER -> <<s>>

\* monthMap
monthMap ==
    [Jan |-> "01", Feb |-> "02", Mar |-> "03", Apr |-> "04", May |-> "05", Jun |-> "06",
     Jul |-> "07", Aug |-> "08", Sep |-> "09", Oct |-> "10", Nov |-> "11", Dec |-> "12"]
IsMonth(t) == t \in DOMAIN monthMap
IsDay(t) == t \in {"5", "13", "23", "28", "31"}
IsBlank(t) == t \in {" ", "\n"}
IsParen(t) == t \in {"(Fri)", "(Mon)", "(Wed)", "(Sat)"}
IsDashOrNewline(t) == t \in {"-", "\n"}
\* day.padStart(2, "0")
PadDay(d) == IF Len(d) = 1 THEN "0" \o d ELSE d
\* new Date().getFullYear(), as text
currentYear == "YYYY"

RECURSIVE SkipBlanks(_, _)
\* the first index from i on whose token is not a blank (Len + 1 when none)
SkipBlanks(toks, i) ==
    IF i <= Len(toks) /\ IsBlank(toks[i]) THEN SkipBlanks(toks, i + 1) ELSE i

RECURSIVE SkipDashes(_, _)
\* the first index from i on whose token is neither a dash nor a newline
SkipDashes(toks, i) ==
    IF i <= Len(toks) /\ IsDashOrNewline(toks[i]) THEN SkipDashes(toks, i + 1) ELSE i

\* (Mon)\s+(\d{1,2}) at index i: the index after the match, or 0
MonthDayEnd(toks, i, j) ==
    IF j > i + 1 /\ j <= Len(toks) /\ IsDay(toks[j]) THEN j + 1 ELSE 0

MonthDayAt(toks, i) ==
    IF i <= Len(toks) /\ IsMonth(toks[i]) THEN MonthDayEnd(toks, i, SkipBlanks(toks, i + 1))
    ELSE 0

\* (?:\s*\([^)]*\))? from index p: the index after the group, p when it does
\* not take part; q is the index after the blanks
AfterParenAt(toks, p, q) == IF q <= Len(toks) /\ IsParen(toks[q]) THEN q + 1 ELSE p
AfterParen(toks, p) == AfterParenAt(toks, p, SkipBlanks(toks, p))

\* (?:\s*[-\n]+)? from index p: \s* gives back blanks until [-\n]+ can start,
\* which then runs as far as it can; q is the index after the blanks
AfterDashAt(toks, p, q) ==
    IF \E k \in p..q : k <= Len(toks) /\ IsDashOrNewline(toks[k])
    THEN SkipDashes(toks, CHOOSE k \in p..q :
                            /\ k <= Len(toks) /\ IsDashOrNewline(toks[k])
                            /\ \A n \in (k + 1)..q : n > Len(toks) \/ ~IsDashOrNewline(toks[n]))
    ELSE p
AfterDash(toks, p) == AfterDashAt(toks, p, SkipBlanks(toks, p))

\* the groups of a match that starts at index i and whose first month and day
\* end before afterDay; group 3 is tried at index g
DateGroups(toks, i, afterDay, g, end3) ==
    [ok |-> TRUE, month |-> toks[i], day |-> toks[afterDay - 1],
     month3 |-> IF end3 = 0 THEN "" ELSE toks[g],
     day3 |-> IF end3 = 0 THEN "" ELSE toks[end3 - 1]]

DateGroupsAt(toks, i, afterDay, g) == DateGroups(toks, i, afterDay, g, MonthDayAt(toks, g))

DateGroupsFrom(toks, i, afterDay) ==
    DateGroupsAt(toks, i, afterDay, AfterDash(toks, AfterParen(toks, afterDay)))

\* datePattern applied to the tokens, at the leftmost index where it matches:
\* [ok |-> FALSE] or the groups 1, 2 and 3 (group 3 as month and day; month3 is
\* "" when the group did not take part)
MatchDatePattern(toks) ==
    IF \A i \in 1..Len(toks) : MonthDayAt(toks, i) = 0 THEN [ok |-> FALSE]
    ELSE LET i == CHOOSE m \in 1..Len(toks) :
                    /\ MonthDayAt(toks, m) /= 0
                    /\ \A n \in 1..(m - 1) : MonthDayAt(toks, n) = 0
         IN DateGroupsFrom(toks, i, MonthDayAt(toks, i))

\* StartDate and EndDate of a match
datesOf(match) ==
    [start |-> currentYear \o "-" \o monthMap[match.month] \o "-" \o PadDay(match.day),
     end |-> IF match.month3 = ""
             THEN currentYear \o "-" \o monthMap[match.month] \o "-" \o PadDay(match.day)
             ELSE currentYear \o "-" \o monthMap[match.month3] \o "-" \o PadDay(match.day3)]

withDates(newLabel, dates) ==
    JObj(("StartDate" :> JStr(dates.start)) @@ ("EndDate" :> JStr(dates.end)) @@ newLabel.f)

\* a failed match thrown out of the enrichment step
withMatch_Throws(newLabel, match) ==
    IF ~match.ok THEN JThrow ELSE withDates(newLabel, datesOf(match))

withMatch(newLabel, match) ==
    IF ~match.ok THEN newLabel ELSE withDates(newLabel, datesOf(match))

isOleMissSite(newLabel, docName, originUrl, key) ==
    \/ docName = "olemisssports.com"
    \/ IncludesOleMiss(originUrl.toks)
    \/ key = "Ole Sport"
    \/ Lookup(newLabel, "Title") = JStr("Ole Sport")

\* processEventDate: newLabel with StartDate and EndDate added when the item
\* is of the Ole Miss site and its EventDate matches datePattern; an EventDate
\* that is no string has no match() and the TypeError is caught
processEventDate(newLabel, processedItem, docName, originUrl, key) ==
    IF ~isOleMissSite(newLabel, docName, originUrl, key)
        \/ ~HasTruthy(processedItem, "EventDate") THEN newLabel
    ELSE IF processedItem.f["EventDate"].kind /= "str" THEN newLabel
    ELSE withMatch(newLabel, MatchDatePattern(EventDateTokens(processedItem.f["EventDate"].s)))

RECURSIVE IndexFields(_, _)
\* the own enumerable properties of an array: its elements under "0", "1", ...
IndexFields(items, i) ==
    IF i > Len(items) THEN <<>>
    ELSE (ToString(i - 1) :> items[i]) @@ IndexFields(items, i + 1)

\* one element of processArrayField's map: the cleaned item wrapped with uid,
\* Title and originUrl, its ImageUrl defaulted or stripped of its query, its
\* dates added. A null or primitive item makes the "in" operator throw, and a
\* truthy ImageUrl that is no string has no split().
makeLabel(key, processedItem, index, originUrl, docName, now) ==
    IF IsThrow(processedItem) \/ processedItem.kind \notin {"obj", "arr"} THEN JThrow
    ELSE LET own == IF processedItem.kind = "obj" THEN processedItem.f
                    ELSE IndexFields(processedItem.items, 1)
             uid == SlugOf(key) \o "-" \o ToString(now) \o "-" \o ToString(index)
             base == own @@ ("uid" :> JStr(uid)) @@ ("Title" :> JStr(key))
                         @@ ("originUrl" :> JStr(Text(originUrl.toks)))
             given == Lookup(processedItem, "ImageUrl")
         IN IF HasKey(processedItem, "ImageUrl") /\ Truthy(given) /\ given.kind /= "str"
            THEN JThrow
            ELSE LET imageUrl == IF given.kind = "str" THEN BeforeQuery(given.s) ELSE ""
                     newLabel == JObj(("ImageUrl" :> JStr(imageUrl)) @@ base)
                 IN processEventDate(newLabel, processedItem, docName, originUrl, key)

RECURSIVE cleanDataFields(_, _, _, _, _)
RECURSIVE processedItemsOf(_, _, _, _, _, _)
RECURSIVE processArrayField(_, _, _, _, _, _)

\* cleanDataFields; now is the reading of Date.now() during the transform
cleanDataFields(data, existingData, originUrl, docName, now) ==
    IF ~Truthy(data) \/ ~TypeofObject(data) THEN data
    ELSE IF IsArray(data)
    THEN LET out == [i \in 1..Len(data.items) |->
                        cleanDataFields(data.items[i], existingData, originUrl, docName, now)]
         IN IF \E i \in 1..Len(out) : IsThrow(out[i]) THEN JThrow ELSE JArr(out)
    ELSE LET kept == {k \in DOMAIN data.f : ~IsPositionKey(k) /\ k /= "_STATUS"}
             cleaned == [k \in kept |->
                            IF IsArray(data.f[k])
                            THEN processArrayField(k, data.f[k].items, existingData,
                                                   originUrl, docName, now)
                            ELSE IF TypeofObject(data.f[k])
                            THEN cleanDataFields(data.f[k], existingData, originUrl, docName, now)
                            ELSE data.f[k]]
         IN IF \E k \in kept : IsThrow(cleaned[k]) THEN JThrow ELSE JObj(cleaned)

\* the array.map of processArrayField: every element cleaned and wrapped
processedItemsOf(key, array, existingData, originUrl, docName, now) ==
    [i \in 1..Len(array) |->
        makeLabel(key, cleanDataFields(array[i], existingData, originUrl, docName, now),
                  i - 1, originUrl, docName, now)]

\* the rest of processArrayField: the items are deduplicated and, when
\* existingData.data.entries[key] is an array, deduplicated against it and
\* returned after it
finishArrayField(processedItems, existingArray) ==
    IF \E i \in 1..Len(processedItems) : IsThrow(processedItems[i]) THEN JThrow
    ELSE IF IsArray(existingArray)
    THEN JArr(existingArray.items
                \o deduplicateAgainstExisting(deduplicateItems(processedItems),
                                              existingArray.items))
    ELSE JArr(deduplicateItems(processedItems))

\* processArrayField
processArrayField(key, array, existingData, originUrl, docName, now) ==
    finishArrayField(processedItemsOf(key, array, existingData, originUrl, docName, now),
                     Lookup(Lookup(Lookup(existingData, "data"), "entries"), key))

---------------------------------------------------------------------------
(* Merge (WebhookService.appendNewData, convertToFirestoreFormat) *)

RECURSIVE convertToFirestoreFormat(_)
\* convertToFirestoreFormat: undefined becomes null, arrays and objects are
\* rebuilt element by element (a JSON payload holds no Date)
convertToFirestoreFormat(data) ==
    CASE data.kind \in {"null", "undefined"} -> JNull
      [] data.kind = "arr" -> JArr(MapSeq(convertToFirestoreFormat, data.items))
      [] data.kind = "obj" ->
            JObj([k \in DOMAIN data.f |-> convertToFirestoreFormat(data.f[k])])
      [] OTHER -> data

\* [...existing] of mergedData.data[key] || []: the elements of an array, the
\* characters of a string (the strings stored as category values have one
\* character), nothing for a falsy value; an object is not iterable
SpreadExisting(v) ==
    CASE v.kind = "arr" -> v.items
      [] v.kind = "str" -> IF v.s = "" THEN <<>> ELSE <<v>>
      [] OTHER -> <<>>

\* appendNewData on the data() of the snapshot: array values are appended to
\* the stored category, other values replace it
appendNewData(existingData, processedData, originUrl) ==
    LET data == IF HasTruthy(existingData, "data") THEN existingData.f["data"] ELSE EmptyObj
        keys == DOMAIN processedData.f
        notIterable == {k \in keys : IsArray(processedData.f[k])
                                        /\ Lookup(data, k).kind = "obj"}
        merged == [k \in keys |->
                    IF IsArray(processedData.f[k])
                    THEN JArr(SpreadExisting(Lookup(data, k)) \o processedData.f[k].items)
                    ELSE processedData.f[k]]
    IN IF notIterable /= {} THEN JThrow
       ELSE JObj(("data" :> JObj(merged @@ data.f)) @@ existingData.f)

---------------------------------------------------------------------------
(* Bounded inputs of the pure operations *)

\* all sequences over S of length lo..hi
SeqsOf(S, lo, hi) == UNION {[1..n -> S] : n \in lo..hi}

MaxLabels == 3
MaxFreeLen == 3
MaxItems == 3

\* host labels of the well-formed URLs ("" gives hosts such as "espn.com.")
HostLabels == {"www", "espn", "com", "ESPN", ""}

RECURSIVE DottedHost(_)
\* the tokens of a host name, from its labels
DottedHost(labels) ==
    IF Len(labels) = 1 THEN <<labels[1]>>
    ELSE <<labels[1], Dot>> \o DottedHost(Tail(labels))

\* the text of a URL, from its components
UrlText(scheme, labels, path, query) == <<scheme>> \o DottedHost(labels) \o path \o query

\* well-formed URLs with at least two host labels, kept with their components
WellFormedUrls ==
    {[from |-> "components", params |-> "first", labels |-> l,
      scheme |-> sc, path |-> pa, query |-> q,
      url |-> UStr(UrlText(sc, l, pa, q))] :
        sc \in SchemeTokens, l \in SeqsOf(HostLabels, 2, MaxLabels),
        pa \in {<<>>, <<"/nfl">>}, q \in {<<>>, <<"?x=1">>}}

\* texts without a scheme, such as "not a url", "www.espn.com", " " and ""
FreeTokens == {"not", "a", "url", "www", "espn", Dot, Space, "/nfl"}
SchemelessUrls ==
    {[from |-> "schemeless", params |-> "first", url |-> UStr(t)] :
        t \in SeqsOf(FreeTokens, 0, MaxFreeLen)
                \cup {<<"not", Space, "a", Space, "url">>,
                      <<"www", Dot, "espn", Dot, "com">>,
                      <<"www", Dot, "espn", Dot, "com", "/nfl", "?x=1">>}}

\* URLs whose host is a dotted-decimal IPv4 literal
IpUrls ==
    {[from |-> "ip", params |-> "first", labels |-> l,
      scheme |-> sc, path |-> pa, query |-> <<>>,
      url |-> UStr(UrlText(sc, l, pa, <<>>))] :
        sc \in SchemeTokens, l \in [1..4 -> NumericLabels], pa \in {<<>>, <<"/nfl">>}}

\* URLs whose host is a single label
SingleLabelUrls ==
    {[from |-> "single", params |-> "first", labels |-> <<h>>,
      scheme |-> sc, path |-> pa, query |-> <<>>,
      url |-> UStr(UrlText(sc, <<h>>, pa, <<>>))] :
        sc \in SchemeTokens, h \in {"localhost", "espn"}, pa \in {<<>>, <<"/nfl">>}}

\* no URL at all: undefined as the argument, or no first input parameter
AbsentUrls ==
    {[from |-> "absent", params |-> p, url |-> Undefined] : p \in {"first", "absent", "empty"}}

KeyInputs == WellFormedUrls \cup SchemelessUrls \cup AbsentUrls \cup IpUrls \cup SingleLabelUrls

\* items of the deduplication inputs: Title absent, "" or "A", EventDate absent
\* or "E", and a Link that tells apart items of equal key
DedupItems ==
    {JObj(("Link" :> JStr(l)) @@ t @@ e) :
        l \in {"l1", "l2"},
        t \in {<<>>, ("Title" :> JStr("")), ("Title" :> JStr("A"))},
        e \in {<<>>, ("EventDate" :> JStr("E"))}}

ExistingChoices == {<<>>} \cup {<<x>> : x \in DedupItems}

DedupInputs ==
    {[items |-> xs, existing |-> ex] :
        xs \in SeqsOf(DedupItems, 0, MaxItems), ex \in ExistingChoices}

---------------------------------------------------------------------------
(* Specification of key derivation: an input is drawn, one operation is    *)
(* applied to it                                                           *)

NoCalls == <<>>
NoStore == <<>>

InitKey ==
    /\ store = NoStore /\ calls = NoCalls
    /\ op = "input" /\ arg \in KeyInputs /\ ret = ""

\* extractDomainIdentifier(url), called directly
ExtractDomainIdentifier ==
    /\ op = "input" /\ arg.params = "first"
    /\ op' = "extractDomainIdentifier"
    /\ ret' = extractDomainIdentifier(arg.url)
    /\ UNCHANGED <<store, calls, arg>>

\* the key derivation at the head of processBrowseAIWebhook
WebhookDocName ==
    /\ op = "input"
    /\ op' = "webhookDocName"
    /\ ret' = webhookDocName(arg.params, arg.url)
    /\ UNCHANGED <<store, calls, arg>>

\* utils/browseai.js extractDomainIdentifier(url), called directly
UtilExtractDomainIdentifier ==
    /\ op = "input" /\ arg.params = "first"
    /\ op' = "utilExtractDomainIdentifier"
    /\ ret' = utilExtractDomainIdentifier(arg.url)
    /\ UNCHANGED <<store, calls, arg>>

NextKey == ExtractDomainIdentifier \/ WebhookDocName \/ UtilExtractDomainIdentifier

SpecKey == InitKey /\ [][NextKey]_vars

---------------------------------------------------------------------------
(* Specification of deduplication: an input is drawn, one operation is     *)
(* applied to it                                                           *)

InitDedup ==
    /\ store = NoStore /\ calls = NoCalls
    /\ op = "input" /\ arg \in DedupInputs /\ ret = <<>>

GenerateItemKey ==
    /\ op = "input"
    /\ op' = "generateItemKey"
    /\ ret' = MapSeq(generateItemKey, arg.items)
    /\ UNCHANGED <<store, calls, arg>>

DeduplicateItems ==
    /\ op = "input"
    /\ op' = "deduplicateItems"
    /\ ret' = deduplicateItems(arg.items)
    /\ UNCHANGED <<store, calls, arg>>

DeduplicateAgainstExisting ==
    /\ op = "input"
    /\ op' = "deduplicateAgainstExisting"
    /\ ret' = deduplicateAgainstExisting(arg.items, arg.existing)
    /\ UNCHANGED <<store, calls, arg>>

NextDedup == GenerateItemKey \/ DeduplicateItems \/ DeduplicateAgainstExisting

SpecDedup == InitDedup /\ [][NextDedup]_vars

---------------------------------------------------------------------------
(* The webhook pipeline over the document store                            *)
(* (WebhookService.processBrowseAIWebhook behind POST /api/webhook/browseAI)*)

MaxCalls == 2
MaxBatch == 2
MaxNow == 2

Calls == 1..MaxCalls
\* readings of Date.now()
Times == 1..MaxNow

Collections == {"captured_texts", "captured_screenshots", "captured_lists"}
NoDoc == [kind |-> "nodoc"]
NoWrite == [kind |-> "nowrite"]
NoRead == [kind |-> "noread"]

\* scraped elements: one with a Title of its own and a Position, one without
\* any key field, with a _STATUS and an ImageUrl that has a query
RawItems ==
    {JObj([Title |-> JStr("A"), Link |-> JStr("l1"), Position |-> JStr("1")]),
     JObj([Link |-> JStr("l2"), _STATUS |-> JStr("ok"), ImageUrl |-> JStr("img.png?w=1")])}

Batches == SeqsOf(RawItems, 0, MaxBatch)

EspnUrl == UStr(<<"https://", "www", ".", "espn", ".", "com">>)
OleMissUrl == UStr(<<"https://", "olemisssports", ".", "com">>)

\* capturedLists of the Ole Miss site: a schedule entry whose EventDate is a
\* range, or no date at all
ScheduleChoices ==
    {JObj([Schedule |-> JArr(<<JObj([Title |-> JStr("Game"), EventDate |-> JStr(d)])>>)]) :
        d \in {"Jun 13\n(Fri)\n-\nJun 23\n(Mon)", "TBD"}}

\* capturedLists: a category holding a batch, a category holding a scalar, or
\* an object named "entries" that holds a category
ListsChoices ==
    {JObj([Headlines |-> JArr(b)]) : b \in Batches}
        \cup {JObj([Headlines |-> JStr("x")])}
        \cup {JObj([entries |-> JObj([Headlines |-> JArr(<<x>>)])]) : x \in RawItems}

Payload(params, url, texts, shots, lists) ==
    [task |-> TRUE, params |-> params, url |-> url,
     capturedTexts |-> texts, capturedScreenshots |-> shots, capturedLists |-> lists]

\* request bodies: lists of every shape for one site; schedules of the Ole
\* Miss site; each section present or not, with and without input parameters;
\* and a body without task
Payloads ==
    {Payload("first", EspnUrl, JUndef, JUndef, l) : l \in ListsChoices}
        \cup {Payload("first", OleMissUrl, JUndef, JUndef, l) : l \in ScheduleChoices}
        \cup {Payload(pu[1], pu[2], t, sh, l) :
                pu \in {<<"first", EspnUrl>>, <<"absent", Undefined>>},
                t \in {JUndef, JObj([Summary |-> JStr("x")])},
                sh \in {JUndef, JObj([Shot |-> JStr("x")])},
                l \in {JUndef} \cup {JObj([Headlines |-> JArr(<<x>>)]) : x \in RawItems}}
        \cup {[task |-> FALSE]}

DocNames == {webhookDocName(p.params, p.url) : p \in {q \in Payloads : q.task}}

\* the values of the route parameter :webhookId
WebhookIds == {"browseAI", "other"}

\* no response sent yet
NoBody == [kind |-> "nobody"]

IdleCall ==
    [pc |-> "idle", webhookId |-> "", payload |-> [task |-> FALSE],
     originUrl |-> UnknownUrl, docName |-> "", body |-> NoBody,
     batch |-> [c \in Collections |-> NoWrite],
     snapshot |-> [c \in Collections |-> NoRead],
     processed |-> [c \in Collections |-> JUndef],
     readAt |-> [c \in Collections |-> 0], now |-> [c \in Collections |-> 0],
     commitNo |-> 0, status |-> 0, error |-> ""]

Init ==
    /\ store = [c \in Collections |-> [d \in DocNames |-> NoDoc]]
    /\ calls = [c \in Calls |-> IdleCall]
    /\ op = "none" /\ arg = <<>> /\ ret = <<>>

\* the number of batches committed so far
Commits == Cardinality({c \in Calls : calls[c].pc = "done"})

\* a new document that also records the origin URL
sectionDocument_WithOrigin(snapshot, processedData, originUrl) ==
    IF snapshot /= NoDoc THEN appendNewData(snapshot, processedData, originUrl)
    ELSE JObj([data |-> JObj(processedData.f), originUrl |-> JStr(Text(originUrl.toks))])

\* the document a section's batch.set() writes: the section is converted and
\* cleaned against the snapshot, then appended to the snapshot's data or, when
\* there is no document yet, wrapped as { data: { ...processedData } }
sectionDocument(snapshot, processedData, originUrl) ==
    IF snapshot /= NoDoc THEN appendNewData(snapshot, processedData, originUrl)
    ELSE JObj([data |-> JObj(processedData.f)])

sectionProcessed(snapshot, section, originUrl, docName, now) ==
    cleanDataFields(convertToFirestoreFormat(section),
                    IF snapshot /= NoDoc THEN snapshot ELSE JNull, originUrl, docName, now)

\* the screenshots document is set whether or not the body has screenshots
afterTexts_AlwaysShots(call) ==
    [call EXCEPT !.batch["captured_screenshots"] =
                    JObj([data |-> convertToFirestoreFormat(call.payload.capturedScreenshots)]),
                 !.pc = IF Truthy(call.payload.capturedLists) THEN "getLists" ELSE "commit"]

\* the synchronous code after the texts section: the screenshots document is
\* set without a read, then the lists section awaits its get(), or the batch
\* awaits its commit
afterTexts(call) ==
    LET p == call.payload
        withShots ==
            IF Truthy(p.capturedScreenshots)
            THEN [call EXCEPT !.batch["captured_screenshots"] =
                        JObj([data |-> convertToFirestoreFormat(p.capturedScreenshots)])]
            ELSE call
    IN [withShots EXCEPT !.pc = IF Truthy(p.capturedLists) THEN "getLists" ELSE "commit"]

\* the message of the error a rejected store operation carries
StoreMessage == "store unavailable"

\* the message of new Error(`Unsupported webhook type: ${webhookId}`)
UnsupportedMessage == "Unsupported webhook type"

\* the body of the route's catch: error.message and the stack of the error
errorBody(message) == [success |-> FALSE, error |-> message, details |-> "stack"]

\* a success answered without the document key
resultBody_WithoutDocName(call) ==
    [success |-> TRUE, message |-> "Webhook processed successfully", docName |-> ""]

\* the result processBrowseAIWebhook returns, which the route sends as the body
resultBody(call) ==
    [success |-> TRUE, message |-> "Webhook processed successfully", docName |-> call.docName]

\* a request that threw a TypeError: the route's catch answers 500 with the
\* message of the error
failed(call) ==
    [call EXCEPT !.pc = "failed", !.status = 500, !.error = "TypeError",
                 !.body = errorBody("TypeError")]

\* a request for a webhook type other than browseAI: the route throws and its
\* catch answers 500
unsupported(call) ==
    [call EXCEPT !.pc = "failed", !.status = 500, !.error = UnsupportedMessage,
                 !.body = errorBody(UnsupportedMessage)]

\* a rejected store operation answered with status 200
rejected_AnswersOk(call) ==
    [call EXCEPT !.pc = "failed", !.status = 200, !.error = StoreMessage,
                 !.body = errorBody(StoreMessage)]

\* a request whose awaited store operation was rejected: the rejection leaves
\* processBrowseAIWebhook and the route's catch answers 500 with its message
rejected(call) ==
    [call EXCEPT !.pc = "failed", !.status = 500, !.error = StoreMessage,
                 !.body = errorBody(StoreMessage)]

\* the request arrives: the code runs to its first await. A body without task
\* throws at task.inputParameters.
Receive(c, p) ==
    /\ calls[c].pc = "idle"
    /\ \A d \in Calls : d < c => calls[d].pc /= "idle"
    /\ calls' = [calls EXCEPT ![c] =
            IF ~p.task THEN failed([@ EXCEPT !.webhookId = "browseAI", !.payload = p])
            ELSE LET started == [@ EXCEPT !.webhookId = "browseAI", !.payload = p,
                                          !.originUrl = webhookOriginUrl(p.params, p.url),
                                          !.docName = webhookDocName(p.params, p.url)]
                 IN IF Truthy(p.capturedTexts) THEN [started EXCEPT !.pc = "getTexts"]
                    ELSE afterTexts(started)]
    /\ UNCHANGED <<store, op, arg, ret>>

\* the get() of a section resolves: the section is processed against the
\* snapshot and its document is put in the batch
readSection(call, coll, section, now) ==
    LET snapshot == store[coll][call.docName]
        processedData == sectionProcessed(snapshot, section, call.originUrl, call.docName, now)
        document == IF IsThrow(processedData) THEN JThrow
                    ELSE sectionDocument(snapshot, processedData, call.originUrl)
    IN IF IsThrow(document) THEN failed(call)
       ELSE [call EXCEPT !.snapshot[coll] = snapshot, !.processed[coll] = processedData,
                         !.readAt[coll] = Commits, !.now[coll] = now,
                         !.batch[coll] = document]

GetTexts(c, now) ==
    /\ calls[c].pc = "getTexts"
    /\ LET after == readSection(calls[c], "captured_texts", calls[c].payload.capturedTexts, now)
       IN calls' = [calls EXCEPT ![c] = IF after.pc = "failed" THEN after ELSE afterTexts(after)]
    /\ UNCHANGED <<store, op, arg, ret>>

GetLists(c, now) ==
    /\ calls[c].pc = "getLists"
    /\ LET after == readSection(calls[c], "captured_lists", calls[c].payload.capturedLists, now)
       IN calls' = [calls EXCEPT ![c] =
                        IF after.pc = "failed" THEN after ELSE [after EXCEPT !.pc = "commit"]]
    /\ UNCHANGED <<store, op, arg, ret>>

\* a commit that also clears the documents of the call's key for which the
\* batch holds no write
committed_ClearsUnwritten(st, call) ==
    [coll \in Collections |->
        [st[coll] EXCEPT ![call.docName] =
            IF call.batch[coll] = NoWrite THEN NoDoc ELSE call.batch[coll]]]

\* the store after the batch of a call is committed: every document the batch
\* holds is set under the call's key, the others are left alone
committed(st, call) ==
    [coll \in Collections |->
        IF call.batch[coll] = NoWrite THEN st[coll]
        ELSE [st[coll] EXCEPT ![call.docName] = call.batch[coll]]]

\* batch.commit(): every document of the batch is set, atomically; the route
\* answers 200
Commit(c) ==
    /\ calls[c].pc = "commit"
    /\ store' = committed(store, calls[c])
    /\ calls' = [calls EXCEPT ![c].pc = "done", ![c].status = 200,
                              ![c].commitNo = Commits + 1,
                              ![c].body = resultBody(calls[c])]
    /\ UNCHANGED <<op, arg, ret>>

\* the store rejects the operation the call awaits (a get() or the commit of
\* the batch, which is atomic): nothing is written
StoreRejects(c) ==
    /\ calls[c].pc \in {"getTexts", "getLists", "commit"}
    /\ calls' = [calls EXCEPT ![c] = rejected(@)]
    /\ UNCHANGED <<store, op, arg, ret>>

\* a request to /api/webhook/:webhookId for a webhook type the route does not
\* know: the body is not looked at
ReceiveUnsupported(c, webhookId, p) ==
    /\ calls[c].pc = "idle" /\ webhookId /= "browseAI"
    /\ \A d \in Calls : d < c => calls[d].pc /= "idle"
    /\ calls' = [calls EXCEPT ![c] = unsupported([@ EXCEPT !.webhookId = webhookId, !.payload = p])]
    /\ UNCHANGED <<store, op, arg, ret>>

\* bodies sent to an unknown webhook type
UnsupportedBodies == {[task |-> FALSE], Payload("absent", Undefined, JUndef, JUndef, JUndef)}

Next ==
    \/ \E c \in Calls, p \in Payloads : Receive(c, p)
    \/ \E c \in Calls, w \in WebhookIds, p \in UnsupportedBodies : ReceiveUnsupported(c, w, p)
    \/ \E c \in Calls, now \in Times : GetTexts(c, now)
    \/ \E c \in Calls, now \in Times : GetLists(c, now)
    \/ \E c \in Calls : Commit(c)
    \/ \E c \in Calls : StoreRejects(c)

Spec == Init /\ [][Next]_vars

---------------------------------------------------------------------------
(* Document administration beside the pipeline (FirestoreService behind    *)
(* GET /api/firestore/:collection/:documentId and                          *)
(* DELETE /api/delete/firestore/:collection/:documentId)                   *)

MaxAdmin == 2

\* request bodies of the webhook calls that run beside the administration
AdminPayloads ==
    {Payload("first", EspnUrl, JUndef, JUndef, JObj([Headlines |-> JArr(<<x>>)])) : x \in RawItems}
        \cup {Payload("first", EspnUrl, JObj([Summary |-> JStr("x")]), JUndef, JUndef)}

\* the documents the administrative requests name
AdminTargets ==
    {<<"captured_lists", "espn.com">>, <<"captured_texts", "espn.com">>,
     <<"captured_lists", "unknown">>}

\* fetchDocumentById: null when the document does not exist, otherwise
\* { id: doc.id, ...doc.data() }
fetchDocumentById(st, collection, documentId) ==
    IF st[collection][documentId] = NoDoc THEN JNull
    ELSE JObj(st[collection][documentId].f @@ ("id" :> JStr(documentId)))

\* a missing document answered as a failure of the server
documentAnswer_Throws(document) ==
    IF document = JNull
    THEN [status |-> 500, body |-> [error |-> "Failed to fetch document from Firestore"]]
    ELSE [status |-> 200, body |-> document]

\* the answer of GET /api/firestore/:collection/:documentId
documentAnswer(document) ==
    IF document = JNull THEN [status |-> 404, body |-> [error |-> "Document not found"]]
    ELSE [status |-> 200, body |-> document]

\* the answers of DELETE /api/delete/firestore/:collection/:documentId: the
\* result of deleteDocumentById without success is answered 404 with its error
notFoundAnswer == [status |-> 404, body |-> [error |-> "Document not found"]]
deletedAnswer ==
    [status |-> 200, body |-> [success |-> TRUE, message |-> "Document deleted successfully"]]
\* the answer of a route whose service call threw
failedAnswer(message) == [status |-> 500, body |-> [error |-> message]]

\* the store after docRef.delete()
deleted(st, collection, documentId) ==
    [st EXCEPT ![collection][documentId] = NoDoc]

\* no administrative request is being served
AdminReady == IF op = "none" THEN TRUE ELSE arg.pc = "answered"
\* the number of administrative requests so far
AdminCount == IF op = "none" THEN 0 ELSE arg.n

\* the request record: the operation's arguments and how far it has come
AdminRequest(collection, documentId, pc) ==
    [collection |-> collection, documentId |-> documentId, pc |-> pc, n |-> AdminCount + 1]

\* the calls that have read or may still read the store and have not answered
InFlight == {c \in Calls : calls[c].pc \in {"getTexts", "getLists", "commit"}}
NotStarted == {c \in Calls : calls[c].pc = "idle"}

\* an answer together with the history of the request: whether the store
\* rejected an operation of it, the document it removed, and the webhook calls
\* that were in flight or not yet started when it was removed
Answered(answer, storeRejected, removed, inFlight, notStarted) ==
    [status |-> answer.status, body |-> answer.body, rejected |-> storeRejected,
     removed |-> removed, inFlight |-> inFlight, notStarted |-> notStarted]

\* GET /api/firestore/:collection/:documentId: the get() resolves and the
\* route answers
FetchDocumentById(collection, documentId) ==
    /\ AdminReady /\ AdminCount < MaxAdmin
    /\ op' = "fetchDocumentById"
    /\ arg' = AdminRequest(collection, documentId, "answered")
    /\ ret' = Answered(documentAnswer(fetchDocumentById(store, collection, documentId)),
                       FALSE, NoDoc, {}, {})
    /\ UNCHANGED <<store, calls>>

\* DELETE: the get() of deleteDocumentById resolves. A missing document is
\* answered at once; for an existing one the delete() is awaited.
DeleteDocumentGet(collection, documentId) ==
    /\ AdminReady /\ AdminCount < MaxAdmin
    /\ op' = "deleteDocumentById"
    /\ IF store[collection][documentId] = NoDoc
       THEN /\ arg' = AdminRequest(collection, documentId, "answered")
            /\ ret' = Answered(notFoundAnswer, FALSE, NoDoc, {}, {})
       ELSE /\ arg' = AdminRequest(collection, documentId, "delete")
            /\ ret' = <<>>
    /\ UNCHANGED <<store, calls>>

\* DELETE: docRef.delete() resolves and the route answers with the result
DeleteDocumentDelete ==
    /\ op = "deleteDocumentById" /\ arg.pc = "delete"
    /\ store' = deleted(store, arg.collection, arg.documentId)
    /\ arg' = [arg EXCEPT !.pc = "answered"]
    /\ ret' = Answered(deletedAnswer, FALSE, store[arg.collection][arg.documentId],
                       InFlight, NotStarted)
    /\ UNCHANGED <<op, calls>>

\* the store rejects the get() of a request, or the delete(): the service
\* rethrows and the route's catch answers 500; nothing is removed
AdminRejected(name, collection, documentId) ==
    \/ /\ AdminReady /\ AdminCount < MaxAdmin
       /\ op' = name
       /\ arg' = AdminRequest(collection, documentId, "answered")
       /\ ret' = Answered(failedAnswer(IF name = "fetchDocumentById"
                                       THEN "Failed to fetch document from Firestore"
                                       ELSE "Failed to delete document from Firestore"),
                          TRUE, NoDoc, {}, {})
       /\ UNCHANGED <<store, calls>>
    \/ /\ op = "deleteDocumentById" /\ arg.pc = "delete"
       /\ name = "deleteDocumentById"
       /\ collection = arg.collection /\ documentId = arg.documentId
       /\ arg' = [arg EXCEPT !.pc = "answered"]
       /\ ret' = Answered(failedAnswer("Failed to delete document from Firestore"),
                          TRUE, NoDoc, {}, {})
       /\ UNCHANGED <<store, op, calls>>

\* the steps of the webhook calls, which leave the administrative request as
\* it is
NextWebhook ==
    \/ \E c \in Calls, p \in AdminPayloads : Receive(c, p)
    \/ \E c \in Calls, now \in Times : GetTexts(c, now)
    \/ \E c \in Calls, now \in Times : GetLists(c, now)
    \/ \E c \in Calls : Commit(c)
    \/ \E c \in Calls : StoreRejects(c)

NextAdmin ==
    \/ NextWebhook
    \/ \E t \in AdminTargets : FetchDocumentById(t[1], t[2])
    \/ \E t \in AdminTargets : DeleteDocumentGet(t[1], t[2])
    \/ DeleteDocumentDelete
    \/ \E t \in AdminTargets, name \in {"fetchDocumentById", "deleteDocumentById"} :
          AdminRejected(name, t[1], t[2])

SpecAdmin == Init /\ [][NextAdmin]_vars

---------------------------------------------------------------------------
(* The strict variant of the pipeline (the last WebhookService class of    *)
(* webhook.service.js): documents of texts and screenshots are keyed by    *)
(* the task id, which is required                                          *)

\* the message of new Error("Task ID is required")
TaskIdMessage == "Task ID is required"

TaskIds == {"t1", "t2"}
\* task.id: absent, empty, or an id
TaskIdChoices == {JUndef, JStr("")} \cup {JStr(t) : t \in TaskIds}

\* the keys of the documents the strict variant can write
StrictKeys == TaskIds \cup {"espn", "unknown"}

StrictPayload(id, params, url, texts, shots, lists) ==
    [task |-> TRUE, id |-> id, params |-> params, url |-> url,
     capturedTexts |-> texts, capturedScreenshots |-> shots, capturedLists |-> lists]

\* request bodies: with and without task, with and without a task id, each
\* section present or not; the lists carry a Position member
StrictPayloads ==
    {StrictPayload(id, pu[1], pu[2], t, JUndef, l) :
        id \in TaskIdChoices,
        pu \in {<<"first", EspnUrl>>, <<"absent", Undefined>>},
        t \in {JUndef, JObj([Summary |-> JStr("x")])},
        l \in {JUndef, JObj([Headlines |-> JArr(<<JObj([Title |-> JStr("A")])>>),
                             Position |-> JStr("1")])}}
        \cup {StrictPayload(JStr("t1"), "first", EspnUrl, JUndef, JObj([Shot |-> JStr("x")]), JUndef)}
        \cup {[task |-> FALSE]}

\* !task?.id is false
hasTaskId(p) == IF p.task THEN Truthy(p.id) ELSE FALSE

\* admin.firestore.Timestamp.fromDate(new Date())
Timestamp(now) == [kind |-> "timestamp", ms |-> now]

\* the document id of the lists: the second label of a hostname of three or
\* more labels, otherwise the first; "unknown" without a parsable origin URL
strictDocId(originUrl) ==
    IF Text(originUrl.toks) \in {"", "unknown"} THEN "unknown"
    ELSE LET urlObj == ParseURL(originUrl.toks) IN
         IF ~urlObj.ok THEN "unknown"
         ELSE IF Len(urlObj.parts) >= 3 THEN urlObj.parts[2]
         ELSE urlObj.parts[1]

\* the document set for texts and for screenshots
strictSectionDocument(taskId, originUrl, timestamp, section) ==
    JObj([taskId |-> JStr(taskId), originUrl |-> JStr(Text(originUrl.toks)),
          createdAt |-> timestamp, data |-> convertToFirestoreFormat(section)])

\* { ...filteredListsData, createdAt: timestamp }, filteredListsData being the
\* converted lists without their Position member
strictEntry(lists, timestamp) ==
    LET listsData == convertToFirestoreFormat(lists)
    IN JObj(("createdAt" :> timestamp)
                @@ [k \in DOMAIN listsData.f \ {"Position"} |-> listsData.f[k]])

\* mergedData or prepData: the entry is put under the task id into the data of
\* the existing document, or into a new document beside the origin URL
strictListsDocument(snapshot, taskId, originUrl, entry) ==
    IF snapshot /= NoDoc
    THEN JObj(("data" :> JObj((taskId :> entry)
                                @@ (IF HasKey(snapshot, "data") /\ Lookup(snapshot, "data").kind = "obj"
                                    THEN snapshot.f["data"].f ELSE <<>>)))
                @@ snapshot.f)
    ELSE JObj([data |-> JObj((taskId :> entry)
                                @@ ("originUrl" :> JStr(Text(originUrl.toks))))])

\* a staged write: the key and the document of batch.set()
Staged(key, document) == [key |-> key, document |-> document]

StrictIdle ==
    [pc |-> "idle", payload |-> [task |-> FALSE], taskId |-> "", originUrl |-> UnknownUrl,
     timestamp |-> Timestamp(0), batch |-> [c \in Collections |-> NoWrite],
     reads |-> 0, status |-> 0, error |-> ""]

\* a call that finds the task id missing only after it has read the store
strictStarted_ReadsFirst(call, p, now) ==
    IF ~hasTaskId(p)
    THEN [call EXCEPT !.payload = p, !.pc = "failed", !.status = 500,
                      !.error = TaskIdMessage, !.reads = 1]
    ELSE [call EXCEPT !.payload = p, !.taskId = p.id.s, !.pc = "commit"]

\* the synchronous code of the strict processBrowseAIWebhook up to its first
\* await: the task id is checked first; then texts and screenshots are staged
\* under the task id; then the lists await their get(), or the batch its
\* commit
strictStarted(call, p, now) ==
    IF ~hasTaskId(p)
    THEN [call EXCEPT !.payload = p, !.pc = "failed", !.status = 500, !.error = TaskIdMessage]
    ELSE LET originUrl == webhookOriginUrl(p.params, p.url)
             timestamp == Timestamp(now)
         IN [call EXCEPT
                !.payload = p, !.taskId = p.id.s, !.originUrl = originUrl,
                !.timestamp = timestamp,
                !.batch = [coll \in Collections |->
                    IF coll = "captured_texts" /\ Truthy(p.capturedTexts)
                    THEN Staged(p.id.s, strictSectionDocument(p.id.s, originUrl, timestamp,
                                                              p.capturedTexts))
                    ELSE IF coll = "captured_screenshots" /\ Truthy(p.capturedScreenshots)
                    THEN Staged(p.id.s, strictSectionDocument(p.id.s, originUrl, timestamp,
                                                              p.capturedScreenshots))
                    ELSE NoWrite],
                !.pc = IF Truthy(p.capturedLists) THEN "getLists" ELSE "commit"]

InitStrict ==
    /\ store = [c \in Collections |-> [d \in StrictKeys |-> NoDoc]]
    /\ calls = [c \in Calls |-> StrictIdle]
    /\ op = "none" /\ arg = <<>> /\ ret = <<>>

StrictReceive(c, p, now) ==
    /\ calls[c].pc = "idle"
    /\ \A d \in Calls : d < c => calls[d].pc /= "idle"
    /\ calls' = [calls EXCEPT ![c] = strictStarted(@, p, now)]
    /\ UNCHANGED <<store, op, arg, ret>>

\* listsRef.get() resolves: the lists document is staged under the document id
StrictGetLists(c) ==
    /\ calls[c].pc = "getLists"
    /\ LET docId == strictDocId(calls[c].originUrl)
           entry == strictEntry(calls[c].payload.capturedLists, calls[c].timestamp)
       IN calls' = [calls EXCEPT
                ![c].reads = @ + 1,
                ![c].batch["captured_lists"] =
                    Staged(docId, strictListsDocument(store["captured_lists"][docId],
                                                      calls[c].taskId, calls[c].originUrl, entry)),
                ![c].pc = "commit"]
    /\ UNCHANGED <<store, op, arg, ret>>

\* batch.commit()
StrictCommit(c) ==
    /\ calls[c].pc = "commit"
    /\ store' = [coll \in Collections |->
                    IF calls[c].batch[coll] = NoWrite THEN store[coll]
                    ELSE [store[coll] EXCEPT ![calls[c].batch[coll].key] =
                                                    calls[c].batch[coll].document]]
    /\ calls' = [calls EXCEPT ![c].pc = "done", ![c].status = 200]
    /\ UNCHANGED <<op, arg, ret>>

\* the store rejects the get() or the commit
StrictStoreRejects(c) ==
    /\ calls[c].pc \in {"getLists", "commit"}
    /\ calls' = [calls EXCEPT ![c].pc = "failed", ![c].status = 500, ![c].error = StoreMessage]
    /\ UNCHANGED <<store, op, arg, ret>>

NextStrict ==
    \/ \E c \in Calls, p \in StrictPayloads, now \in Times : StrictReceive(c, p, now)
    \/ \E c \in Calls : StrictGetLists(c)
    \/ \E c \in Calls : StrictCommit(c)
    \/ \E c \in Calls : StrictStoreRejects(c)

SpecStrict == InitStrict /\ [][NextStrict]_vars

---------------------------------------------------------------------------
(* Category reading (FirestoreService.fetchCategoryData, the earlier        *)
(* versions of the service kept under src/unnamed: part_002 and part_004),  *)
(* behind GET /api/firestore/:collection/:documentId/category/:subcategory. *)
(* Domain: the elements of a category are objects; a timestamp's            *)
(* millisecond value is positive; a string date key is a date text, never   *)
(* the text of a number.                                                    *)

MaxCategory == 3
MaxMillis == 2

JNum(n) == [kind |-> "num", n |-> n]
\* the result of an arithmetic operation on something that is no number
NaN == [kind |-> "nan"]

\* item[k], undefined when the member is absent
Member(item, k) == IF HasKey(item, k) THEN item.f[k] ELSE JUndef

\* ToNumber(v) of a number or of a date text
ToNumber(v) == CASE v.kind = "num" -> v
                 [] v.kind = "str" -> NaN

\* x - y
Minus(x, y) ==
    IF ToNumber(x).kind = "nan" \/ ToNumber(y).kind = "nan" THEN NaN
    ELSE JNum(ToNumber(x).n - ToNumber(y).n)

\* a || b || c || 0
FirstTruthy(vs) ==
    IF \E i \in 1..Len(vs) : Truthy(vs[i])
    THEN vs[CHOOSE i \in 1..Len(vs) : Truthy(vs[i]) /\ \A j \in 1..(i - 1) : ~Truthy(vs[j])]
    ELSE JNum(0)

\* part_002: dateA = a.publishedDate || a.createdAt || a.createdAtFormatted || 0
dateOf(item) ==
    FirstTruthy(<<Member(item, "publishedDate"), Member(item, "createdAt"),
                  Member(item, "createdAtFormatted")>>)

\* part_002: timeA = dateA && dateA.toMillis ? dateA.toMillis() : dateA
timeOf(date) == IF Truthy(date) /\ date.kind = "timestamp" THEN JNum(date.ms) ELSE date

\* v?.toMillis?.()
toMillis(v) == IF v.kind = "timestamp" THEN JNum(v.ms) ELSE JUndef

\* part_004: getTime(item), the millisecond values of the three members
\* before the members themselves
getTime(item) ==
    FirstTruthy(<<toMillis(Member(item, "publishedDate")), toMillis(Member(item, "createdAt")),
                  toMillis(Member(item, "createdAtFormatted")),
                  Member(item, "publishedDate"), Member(item, "createdAt"),
                  Member(item, "createdAtFormatted")>>)

FetchVersions == {"part_002", "part_004"}

\* the comparator handed to sort: timeB - timeA, getTime(b) - getTime(a)
compareFn(version, a, b) ==
    IF version = "part_002" THEN Minus(timeOf(dateOf(b)), timeOf(dateOf(a)))
    ELSE Minus(getTime(b), getTime(a))

\* the sign Array.prototype.sort reads off a comparator result; NaN reads as +0
SortSign(v) == IF v.kind = "nan" THEN 0 ELSE IF v.n < 0 THEN -1 ELSE IF v.n > 0 THEN 1 ELSE 0

\* the comparator is a consistent comparator for the elements (ECMAScript,
\* Array.prototype.sort): antisymmetric, and both "before" and "equal" are
\* transitive
ConsistentComparator(version, xs) ==
    LET s(i, j) == SortSign(compareFn(version, xs[i], xs[j]))
        n == 1..Len(xs)
    IN /\ \A i, j \in n : s(i, j) = -s(j, i)
       /\ \A i, j, k \in n : s(i, j) < 0 /\ s(j, k) < 0 => s(i, k) < 0
       /\ \A i, j, k \in n : s(i, j) = 0 /\ s(j, k) = 0 => s(i, k) = 0

SortOrders(n) == {p \in [1..n -> 1..n] : \A i, j \in 1..n : i /= j => p[i] /= p[j]}

\* p is the stable sort of xs under the comparator
StableOrder(version, xs, p) ==
    \A i, j \in 1..Len(xs) :
        i < j => LET s == SortSign(compareFn(version, xs[p[i]], xs[p[j]]))
                 IN s < 0 \/ (s = 0 /\ p[i] < p[j])

\* [...xs].sort(compareFn), xs.slice().sort(compareFn): the outcomes of the
\* sort of a copy. A consistent comparator gives the stable sort; with an
\* inconsistent one the order is implementation-defined, still a permutation.
sortOutcomes(version, xs) ==
    {[i \in 1..Len(xs) |-> xs[p[i]]] :
        p \in IF ConsistentComparator(version, xs)
              THEN {q \in SortOrders(Len(xs)) : StableOrder(version, xs, q)}
              ELSE SortOrders(Len(xs))}

CategoryNotFound(categoryName) == [success |-> FALSE, error |-> "Category not found or is not an array",
                                   categoryName |-> categoryName]
DocumentNotFound == [success |-> FALSE, error |-> "Document not found"]

\* the category as fetchCategoryData reads it off the document:
\* part_002 docData = data.data || {}, docData[categoryName];
\* part_004 doc.data()?.data?.[categoryName] || []
categoryOf(version, doc, categoryName) ==
    LET held == IF HasTruthy(doc, "data") THEN Member(doc.f["data"], categoryName) ELSE JUndef
    IN IF version = "part_004" /\ ~Truthy(held) THEN JArr(<<>>) ELSE held

\* the answers of fetchCategoryData(collection, documentId, categoryName)
fetchCategoryData(version, st, collection, documentId, categoryName) ==
    LET doc == st[collection][documentId]
    IN IF doc = NoDoc THEN {DocumentNotFound}
       ELSE IF ~IsArray(categoryOf(version, doc, categoryName))
       THEN {CategoryNotFound(categoryName)}
       ELSE {[success |-> TRUE, documentId |-> documentId, categoryName |-> categoryName,
              data |-> sorted, count |-> Len(sorted)] :
                sorted \in sortOutcomes(version, categoryOf(version, doc, categoryName).items)}

\* the values of the date members of the stored items
PublishedDates == {JUndef, JNum(MaxMillis), JStr("2025-01-01"), JStr("2025-06-01")}
CreatedAts == {JUndef} \cup {Timestamp(n) : n \in 1..MaxMillis}
CreatedAtFormatteds == {JUndef, JStr("January 1, 2025 9:00 AM")}

\* the date members of one item; an absent member is left out
DateMembers(p, c, f) ==
    [k \in {x \in {"publishedDate", "createdAt", "createdAtFormatted"} :
              (x = "publishedDate" /\ p /= JUndef) \/ (x = "createdAt" /\ c /= JUndef)
              \/ (x = "createdAtFormatted" /\ f /= JUndef)} |->
        IF k = "publishedDate" THEN p ELSE IF k = "createdAt" THEN c ELSE f]

\* createdAtFormatted is drawn for items that carry no other date member
DatedMembers ==
    {DateMembers(p, c, JUndef) : p \in PublishedDates, c \in CreatedAts}
    \cup {DateMembers(JUndef, JUndef, f) : f \in CreatedAtFormatteds}

\* the items of a stored category: the i-th carries the uid "u<i>"
Uid(i) == JStr("u" \o ToString(i))
CategoryItems(ms) == [i \in 1..Len(ms) |-> JObj(("uid" :> Uid(i)) @@ ms[i])]

CategoryDocuments ==
    {NoDoc, EmptyObj, JObj("data" :> JObj("Headlines" :> JStr("none")))}
    \cup {JObj("data" :> JObj("Headlines" :> JArr(CategoryItems(ms)))) :
            ms \in SeqsOf(DatedMembers, 0, MaxCategory)}

CategoryNames == {"Headlines", "Scores"}

InitFetch ==
    /\ store \in {[coll \in {"captured_lists"} |-> [k \in {"espn"} |-> doc]] :
                    doc \in CategoryDocuments}
    /\ calls = NoCalls
    /\ op = "input" /\ arg = "" /\ ret = JUndef

\* fetchCategoryData(collection, documentId, categoryName)
FetchCategoryData(version, categoryName) ==
    /\ op = "input"
    /\ op' = "fetchCategoryData"
    /\ arg' = [version |-> version, collection |-> "captured_lists", documentId |-> "espn",
               categoryName |-> categoryName]
    /\ ret' \in fetchCategoryData(version, store, "captured_lists", "espn", categoryName)
    /\ UNCHANGED <<store, calls>>

NextFetch == \E version \in FetchVersions, categoryName \in CategoryNames :
                 FetchCategoryData(version, categoryName)

SpecFetch == InitFetch /\ [][NextFetch]_vars

---------------------------------------------------------------------------
(* The webhook registry and the trigger (src/src/index.js: the module-level *)
(* Map `webhooks` behind POST /api/webhooks/register,                      *)
(* DELETE /api/webhooks/:webhookId, GET /api/webhooks and POST /api/trigger) *)
(* store is the Map, as the sequence of its entries in insertion order;    *)
(* calls holds the log of the register and delete requests with their      *)
(* answers, and the trigger request in flight.                             *)

MaxRequests == 3
MaxTriggers == 1

\* crypto.randomUUID(): an id that was never issued before
WebhookUuids == {"w1", "w2", "w3"}
\* generateWebhookSecret(): crypto.randomBytes(32).toString("hex"), an opaque
\* text that no request reads back
generateWebhookSecret == {"k1"}

\* a destination fetch() can reach, and one fetch() cannot parse
ReachableUrl == JStr("https://a.example/hook")
UnparsableUrl == JStr("hook")

EventNames == {"created", "deleted"}
EventLists == {JArr(<<JStr("created")>>), JArr(<<JStr("created"), JStr("deleted")>>)}

\* req.body of POST /api/webhooks/register; an absent member is undefined
RegisterBodies ==
    {[url |-> ReachableUrl, events |-> e] : e \in EventLists}
    \cup {[url |-> UnparsableUrl, events |-> JArr(<<JStr("created")>>)],
          [url |-> JUndef, events |-> JArr(<<JStr("created")>>)],
          [url |-> ReachableUrl, events |-> JUndef],
          [url |-> ReachableUrl, events |-> JStr("created")]}

\* req.body of POST /api/trigger
TriggerBodies ==
    {[event |-> JStr(e), data |-> EmptyObj] : e \in EventNames}
    \cup {[event |-> JUndef, data |-> EmptyObj], [event |-> JStr("created"), data |-> JNull]}

\* !url || !events || !Array.isArray(events)
invalidConfiguration(body) ==
    ~Truthy(body.url) \/ ~Truthy(body.events) \/ ~IsArray(body.events)

\* webhooks.has(webhookId)
has(webhooks, webhookId) == \E i \in 1..Len(webhooks) : webhooks[i].id = webhookId

\* webhooks.set(webhookId, value): a new key is entered last, a known key
\* keeps its place
set(webhooks, webhookId, value) ==
    IF has(webhooks, webhookId)
    THEN [i \in 1..Len(webhooks) |->
            IF webhooks[i].id = webhookId THEN [id |-> webhookId] @@ value ELSE webhooks[i]]
    ELSE Append(webhooks, [id |-> webhookId] @@ value)

\* webhooks.delete(webhookId)
delete(webhooks, webhookId) ==
    LET Other(entry) == entry.id /= webhookId IN SelectSeq(webhooks, Other)

InvalidConfiguration == [status |-> 400, body |-> [error |-> "Invalid webhook configuration"]]
WebhookNotFound == [status |-> 404, body |-> [error |-> "Webhook not found"]]
WebhookDeleted == [status |-> 200, body |-> [message |-> "Webhook deleted successfully"]]
EventAndDataRequired == [status |-> 400, body |-> [error |-> "Event and data are required"]]

\* POST /api/webhooks/register: the Map and the answer after the request
registered(webhooks, body, webhookId, secret) ==
    IF invalidConfiguration(body)
    THEN [webhooks |-> webhooks, answer |-> InvalidConfiguration]
    ELSE [webhooks |-> set(webhooks, webhookId,
                           [url |-> body.url, events |-> body.events, secret |-> secret]),
          answer |-> [status |-> 201,
                      body |-> [webhookId |-> webhookId, secret |-> secret,
                                message |-> "Webhook registered successfully"]]]

\* DELETE /api/webhooks/:webhookId: the Map and the answer after the request
unregistered(webhooks, webhookId) ==
    IF has(webhooks, webhookId)
    THEN [webhooks |-> delete(webhooks, webhookId), answer |-> WebhookDeleted]
    ELSE [webhooks |-> webhooks, answer |-> WebhookNotFound]

\* GET /api/webhooks: webhookList
webhookList_WithSecret(webhooks) == webhooks

webhookList(webhooks) ==
    [i \in 1..Len(webhooks) |->
        [id |-> webhooks[i].id, url |-> webhooks[i].url, events |-> webhooks[i].events]]

\* webhook.events.includes(event)
includes(events, event) == \E i \in 1..Len(events.items) : events.items[i] = event

\* triggeredWebhooks: the entries of the Map whose events include the event
triggeredWebhooks(webhooks, event) ==
    LET Subscribed(entry) == includes(entry.events, event) IN SelectSeq(webhooks, Subscribed)

\* what fetch(webhook.url, ...) can do: answer with a status, or throw;
\* a URL it cannot parse makes it throw
Thrown == [kind |-> "throw", message |-> "fetch failed"]
Response(status) == [kind |-> "response", status |-> status]
FetchOutcomes(url) ==
    IF url = UnparsableUrl THEN {Thrown} ELSE {Thrown, Response(200), Response(404)}

\* the value one delivery resolves to (try / catch of the map callback)
deliveryResult_Rethrows(webhookId, outcome) ==
    IF outcome.kind = "throw" THEN Thrown
    ELSE [webhookId |-> webhookId, status |-> outcome.status,
          success |-> outcome.status \in 200..299]

deliveryResult(webhookId, outcome) ==
    IF outcome.kind = "throw"
    THEN [webhookId |-> webhookId, status |-> 500, success |-> FALSE,
          error |-> outcome.message]
    ELSE [webhookId |-> webhookId, status |-> outcome.status,
          success |-> outcome.status \in 200..299]

Pending == [kind |-> "pending"]
\* no response is sent: the promise of the handler rejects
NoAnswer == [status |-> 0, body |-> [error |-> "unhandled rejection"]]

\* res.json({ triggered: results.length, results }) once Promise.all settles
triggerAnswer(results) ==
    IF \E i \in 1..Len(results) : results[i] = Thrown THEN NoAnswer
    ELSE [status |-> 200, body |-> [triggered |-> Len(results), results |-> results]]

NoTrigger == [pc |-> "none"]
NoLog == <<>>

InitRegistry ==
    /\ store = <<>>
    /\ calls = [log |-> NoLog, triggers |-> 0, trigger |-> NoTrigger]
    /\ op = "none" /\ arg = "" /\ ret = JUndef

\* the ids issued so far
Issued == {calls.log[i].webhookId : i \in {j \in 1..Len(calls.log) : calls.log[j].status = 201}}

Logged(request, body, webhookId, answer) ==
    [calls EXCEPT !.log = Append(@, [request |-> request, body |-> body,
                                     webhookId |-> webhookId, status |-> answer.status])]

\* POST /api/webhooks/register
Register(body, webhookId, secret) ==
    /\ Len(calls.log) < MaxRequests
    /\ webhookId \notin Issued
    /\ store' = registered(store, body, webhookId, secret).webhooks
    /\ op' = "register" /\ arg' = body
    /\ ret' = registered(store, body, webhookId, secret).answer
    /\ calls' = Logged("register", body,
                       IF invalidConfiguration(body) THEN "" ELSE webhookId,
                       registered(store, body, webhookId, secret).answer)

\* DELETE /api/webhooks/:webhookId
DeleteWebhook(webhookId) ==
    /\ Len(calls.log) < MaxRequests
    /\ store' = unregistered(store, webhookId).webhooks
    /\ op' = "delete" /\ arg' = webhookId
    /\ ret' = unregistered(store, webhookId).answer
    /\ calls' = Logged("delete", JUndef, webhookId, unregistered(store, webhookId).answer)

\* GET /api/webhooks
ListWebhooks ==
    /\ op' = "list" /\ arg' = ""
    /\ ret' = [status |-> 200, body |-> webhookList(store)]
    /\ UNCHANGED <<store, calls>>

\* POST /api/trigger up to its await: the check of the body, the filter,
\* and the start of one delivery per triggered webhook
Trigger(body) ==
    /\ calls.triggers < MaxTriggers
    /\ calls.trigger.pc \in {"none", "answered"}
    /\ calls' = [calls EXCEPT
          !.triggers = @ + 1,
          !.trigger =
              IF ~Truthy(body.event) \/ ~Truthy(body.data)
              THEN [pc |-> "answered", body |-> body, registry |-> store,
                    targets |-> <<>>, outcomes |-> <<>>, results |-> <<>>,
                    answer |-> EventAndDataRequired]
              ELSE [pc |-> "delivering", body |-> body, registry |-> store,
                    targets |-> triggeredWebhooks(store, body.event),
                    outcomes |-> [i \in 1..Len(triggeredWebhooks(store, body.event)) |-> Pending],
                    results |-> [i \in 1..Len(triggeredWebhooks(store, body.event)) |-> Pending],
                    answer |-> Pending]]
    /\ UNCHANGED <<store, op, arg, ret>>

Delivering == IF calls.trigger.pc = "delivering" THEN TRUE ELSE FALSE

\* one delivery settles: fetch answers or throws
Deliver(i, outcome) ==
    /\ Delivering
    /\ i \in 1..Len(calls.trigger.targets)
    /\ calls.trigger.results[i] = Pending
    /\ outcome \in FetchOutcomes(calls.trigger.targets[i].url)
    /\ calls' = [calls EXCEPT
          !.trigger.outcomes[i] = outcome,
          !.trigger.results[i] = deliveryResult(calls.trigger.targets[i].id, outcome)]
    /\ UNCHANGED <<store, op, arg, ret>>

\* Promise.all settles and the trigger is answered
TriggerAnswer ==
    /\ Delivering
    /\ \A i \in 1..Len(calls.trigger.results) : calls.trigger.results[i] /= Pending
    /\ calls' = [calls EXCEPT
          !.trigger.pc = "answered",
          !.trigger.answer = triggerAnswer(calls.trigger.results)]
    /\ UNCHANGED <<store, op, arg, ret>>

AllOutcomes == {Thrown, Response(200), Response(404)}

NextRegistry ==
    \/ \E body \in RegisterBodies, webhookId \in WebhookUuids, secret \in generateWebhookSecret :
          Register(body, webhookId, secret)
    \/ \E webhookId \in WebhookUuids : DeleteWebhook(webhookId)
    \/ ListWebhooks
    \/ \E body \in TriggerBodies : Trigger(body)
    \/ \E i \in 1..MaxRequests, outcome \in AllOutcomes : Deliver(i, outcome)
    \/ TriggerAnswer

SpecRegistry == InitRegistry /\ [][NextRegistry]_vars

---------------------------------------------------------------------------
(* Specification of field cleaning and item normalisation: a section and a  *)
(* site are drawn, cleanDataFields or processArrayField is applied          *)

\* the sites a section comes from: originUrl and the document key derived
\* from it
CleanSites ==
    {[originUrl |-> u, docName |-> extractDomainIdentifier(u)] : u \in {EspnUrl, OleMissUrl}}

PositionFields ==
    {<<>>, ("Position" :> JStr("1")), ("position" :> JStr("1")), ("POSITION" :> JStr("1"))}
StatusFields == {<<>>, ("_STATUS" :> JStr("ok"))}

\* flat objects with and without the fields that are stripped
Leaves == {JObj(("Link" :> JStr("l1")) @@ po @@ st) : po \in PositionFields, st \in StatusFields}

\* elements that hold an object or an array of their own
NestedElements ==
    {JObj(("Link" :> JStr("l1")) @@ ("Inner" :> x) @@ po) : x \in Leaves, po \in PositionFields}
        \cup {JObj(("Tags" :> JArr(<<x>>)) @@ st) : x \in Leaves, st \in StatusFields}

MetaChoices ==
    {JObj([Link |-> JStr("l1")]),
     JObj([Link |-> JStr("l1"), Position |-> JStr("1"), _STATUS |-> JStr("ok")]),
     JObj([Link |-> JStr("l1"), POSITION |-> JStr("1")])}

\* sections with stripped fields at every depth: beside and inside an object,
\* inside the elements of a category, and inside what the elements hold
NestedData ==
    {JObj(("Meta" :> m) @@ ("Headlines" :> JArr(<<e>>)) @@ po) :
        m \in MetaChoices, e \in Leaves \cup NestedElements, po \in PositionFields}
        \cup {JObj(("Headlines" :> JArr(<<x, y>>))) : x \in Leaves, y \in MetaChoices}
        \cup {JArr(<<x>>) : x \in Leaves}
        \cup {JStr("x"), JNull, JObj([Tags |-> JArr(<<JStr("a")>>)])}

ImageUrlTexts == {"img.png", "img.png?w=1", "img.png?w=1?h=2", "?w=1", "img.png?", ""}
EventDateTexts ==
    {"Jun 13 (Fri) - Jun 23 (Mon)", "Jun 13\n(Fri)\n-\nJun 23\n(Mon)",
     "May 28 (Wed) - May 31 (Sat)", "Jun 13-Jul 5", "Jun 5", "June", "TBD"}

\* elements with and without a Title, an ImageUrl, an EventDate, a uid of
\* their own
FlatElements ==
    RawItems
        \cup {JObj([Link |-> JStr("l1"), ImageUrl |-> JStr(t)]) : t \in ImageUrlTexts}
        \cup {JObj([Link |-> JStr("l1"), ImageUrl |-> JNull])}
        \cup {JObj([Title |-> JStr("Game"), EventDate |-> JStr(d)]) : d \in EventDateTexts}
        \cup {JObj([Title |-> JStr(t), uid |-> JStr("u1")]) : t \in {"B", "C"}}

FlatData ==
    {JObj(k :> JArr(xs)) : k \in {"Headlines", "Ole Sport"}, xs \in SeqsOf(FlatElements, 0, MaxBatch)}

CleanInputs ==
    {[data |-> d, originUrl |-> site.originUrl, docName |-> site.docName] :
        d \in NestedData \cup FlatData, site \in CleanSites}

InitClean ==
    /\ store = NoStore /\ calls = NoCalls
    /\ op = "input" /\ arg \in CleanInputs /\ ret = JUndef

\* cleanDataFields(data, null, originUrl, docName)
CleanDataFields(now) ==
    /\ op = "input"
    /\ op' = "cleanDataFields"
    /\ ret' = cleanDataFields(arg.data, JNull, arg.originUrl, arg.docName, now)
    /\ UNCHANGED <<store, calls, arg>>

\* processArrayField(key, array, null, originUrl, docName) on a category of
\* the section; the result is kept under its key
ProcessArrayField(key, now) ==
    /\ op = "input"
    /\ arg.data.kind = "obj" /\ key \in DOMAIN arg.data.f /\ IsArray(arg.data.f[key])
    /\ op' = "processArrayField"
    /\ ret' = JObj(key :> processArrayField(key, arg.data.f[key].items, JNull,
                                            arg.originUrl, arg.docName, now))
    /\ UNCHANGED <<store, calls, arg>>

NextClean ==
    \/ \E now \in Times : CleanDataFields(now)
    \/ \E key \in {"Headlines", "Ole Sport"}, now \in Times : ProcessArrayField(key, now)

SpecClean == InitClean /\ [][NextClean]_vars

---------------------------------------------------------------------------
(* Properties of the webhook pipeline (Spec) *)

\* the collections whose documents are merged (read, appended to, written)
MergedCollections == {"captured_texts", "captured_lists"}

\* the section of a request body that goes to a collection
sectionOf(p, coll) ==
    CASE coll = "captured_texts" -> p.capturedTexts
      [] coll = "captured_lists" -> p.capturedLists
      [] OTHER -> p.capturedScreenshots

\* the value a document holds for a category (undefined when it has none)
CategoryOf(doc, k) == Lookup(Lookup(doc, "data"), k)
\* the items a document holds for an array-valued category (none otherwise)
ItemsOf(doc, k) == IF IsArray(CategoryOf(doc, k)) THEN CategoryOf(doc, k).items ELSE <<>>
\* the array-valued categories of a document
ArrayCategories(doc) ==
    IF Lookup(doc, "data").kind = "obj"
    THEN {k \in DOMAIN doc.f["data"].f : IsArray(doc.f["data"].f[k])}
    ELSE {}
\* the categories a section gives as arrays
ArraysOfSection(section) ==
    IF section.kind = "obj" THEN {k \in DOMAIN section.f : IsArray(section.f[k])} ELSE {}

KeysOf(items) == {generateItemKey(items[i]) : i \in 1..Len(items)}
IsPrefix(xs, ys) == Len(xs) <= Len(ys) /\ SubSeq(ys, 1, Len(xs)) = xs

\* the call has read coll, and found a document
MergedInto(c, coll) ==
    /\ calls[c].pc \in {"getLists", "commit", "done"}
    /\ calls[c].snapshot[coll] \notin {NoRead, NoDoc}

\* the cleaned and wrapped elements the call made of category k of its section
NewItems(c, coll, k) ==
    processedItemsOf(k, sectionOf(calls[c].payload, coll).f[k].items, JNull,
                     calls[c].originUrl, calls[c].docName, calls[c].now[coll])

\* C1: processing the same payload twice in succession for the same document
\* key leaves every category with the item count it had after the first call:
\* the second call appends no item whose dedup key is already stored.
C1_SecondCallAddsNothing ==
    \A c1, c2 \in Calls, coll \in MergedCollections :
        (/\ c1 /= c2
         /\ calls[c1].pc = "done" /\ calls[c2].pc = "done"
         /\ calls[c1].payload = calls[c2].payload
         /\ calls[c1].batch[coll] /= NoWrite
         /\ calls[c2].snapshot[coll] = calls[c1].batch[coll])
        => \A k \in ArrayCategories(calls[c1].batch[coll]) :
              /\ Len(ItemsOf(calls[c2].batch[coll], k)) = Len(ItemsOf(calls[c1].batch[coll], k))
              /\ \A i \in (Len(ItemsOf(calls[c1].batch[coll], k)) + 1)
                            ..Len(ItemsOf(calls[c2].batch[coll], k)) :
                    generateItemKey(ItemsOf(calls[c2].batch[coll], k)[i])
                        \notin KeysOf(ItemsOf(calls[c1].batch[coll], k))

\* neither call read coll after the other's commit
Interleaved(c1, c2, coll) ==
    /\ calls[c1].readAt[coll] < calls[c2].commitNo
    /\ calls[c2].readAt[coll] < calls[c1].commitNo

\* C2: when two calls for the same document key interleave their read,
\* transform and write, the document stored after both have completed holds
\* for every item either call appended, that item or, where deduplication
\* merged them, an item with its dedup key.
C2_InterleavedCallsBothKept ==
    \A c1, c2 \in Calls, coll \in MergedCollections :
        (/\ c1 /= c2
         /\ calls[c1].pc = "done" /\ calls[c2].pc = "done"
         /\ \A c3 \in Calls \ {c1, c2} : calls[c3].pc /= "done"
         /\ calls[c1].docName = calls[c2].docName
         /\ calls[c1].batch[coll] /= NoWrite /\ calls[c2].batch[coll] /= NoWrite
         /\ Interleaved(c1, c2, coll))
        => \A k \in ArraysOfSection(sectionOf(calls[c1].payload, coll))
                      \cap ArraysOfSection(sectionOf(calls[c2].payload, coll)) :
              LET appended == ItemsOf(JObj([data |-> calls[c1].processed[coll]]), k)
                                \o ItemsOf(JObj([data |-> calls[c2].processed[coll]]), k)
                  final == ItemsOf(store[coll][calls[c1].docName], k)
              IN \A i \in 1..Len(appended) :
                    generateItemKey(appended[i]) \in KeysOf(final)

\* C3: an array-valued category of a stored document is only ever appended to
\* by webhook calls: what it held stays a prefix of what it holds, and it is
\* never shortened or replaced by another value.
C3_ArraysOnlyAppended ==
    [][\A coll \in Collections, d \in DocNames :
          \A k \in ArrayCategories(store[coll][d]) :
              /\ k \in ArrayCategories(store'[coll][d])
              /\ IsPrefix(ItemsOf(store[coll][d], k), ItemsOf(store'[coll][d], k))]_vars

\* C4: in every merge into an existing document, each array category of the
\* result is the stored items, in their order and positions, followed by the
\* new items in their cleaned and deduplicated order (deduplicated within the
\* batch, or also against the stored items).
C4_ExistingThenNew ==
    \A c \in Calls, coll \in MergedCollections :
        MergedInto(c, coll) =>
            \A k \in ArraysOfSection(sectionOf(calls[c].payload, coll)) :
                CategoryOf(calls[c].snapshot[coll], k).kind \in {"arr", "undefined"} =>
                    LET existing == ItemsOf(calls[c].snapshot[coll], k)
                        new == deduplicateItems(NewItems(c, coll, k))
                        result == ItemsOf(calls[c].batch[coll], k)
                    IN \/ result = existing \o new
                       \/ result = existing \o deduplicateAgainstExisting(new, existing)

\* C5: merging a batch in which exactly one item has a dedup key that is not
\* yet stored for its category, all its other items being stored, makes the
\* category one item longer.
C5_OneNewItemAddsOne ==
    \A c \in Calls, coll \in MergedCollections :
        MergedInto(c, coll) =>
            \A k \in ArraysOfSection(sectionOf(calls[c].payload, coll))
                        \cap ArrayCategories(calls[c].snapshot[coll]) :
                LET existing == ItemsOf(calls[c].snapshot[coll], k)
                    batch == NewItems(c, coll, k)
                IN Cardinality({i \in 1..Len(batch) :
                                  generateItemKey(batch[i]) \notin KeysOf(existing)}) = 1
                   => Len(ItemsOf(calls[c].batch[coll], k)) = Len(existing) + 1

\* C7: deduplication against the stored items drops every new item whose dedup
\* key is among the items stored for its category in the document the call
\* read, keeps the other new items in order, and leaves the stored items as
\* they are.
C7_StoredKeysDropped ==
    \A c \in Calls, coll \in MergedCollections :
        MergedInto(c, coll) =>
            \A k \in ArraysOfSection(sectionOf(calls[c].payload, coll))
                        \cap ArrayCategories(calls[c].snapshot[coll]) :
                LET existing == ItemsOf(calls[c].snapshot[coll], k)
                    new == deduplicateItems(NewItems(c, coll, k))
                IN ItemsOf(calls[c].batch[coll], k)
                     = existing \o SelectSeq(new, LAMBDA item :
                                                generateItemKey(item) \notin KeysOf(existing))

---------------------------------------------------------------------------
(* Properties of field cleaning and item normalisation (SpecClean) *)

\* the keys that are to be stripped
StrippedKey(k) == k \in {"position", "Position", "POSITION", "_STATUS"}

RECURSIVE NoStrippedKey(_)
\* v holds no stripped key at any depth
NoStrippedKey(v) ==
    CASE v.kind = "obj" -> \A k \in DOMAIN v.f : ~StrippedKey(k) /\ NoStrippedKey(v.f[k])
      [] v.kind = "arr" -> \A i \in 1..Len(v.items) : NoStrippedKey(v.items[i])
      [] OTHER -> TRUE

RECURSIVE Preserved(_, _)
RECURSIVE CategoryKept(_, _)
RECURSIVE ElementKept(_, _)

\* out has every key of in that is not stripped, with its cleaned value: an
\* object keeps its other keys, an array outside an object keeps its elements,
\* a scalar is itself
Preserved(in, out) ==
    CASE in.kind = "obj" ->
            /\ out.kind = "obj"
            /\ DOMAIN out.f = {k \in DOMAIN in.f : ~StrippedKey(k)}
            /\ \A k \in DOMAIN out.f :
                  IF IsArray(in.f[k]) THEN CategoryKept(in.f[k].items, out.f[k])
                  ELSE Preserved(in.f[k], out.f[k])
      [] in.kind = "arr" ->
            /\ out.kind = "arr" /\ Len(out.items) = Len(in.items)
            /\ \A i \in 1..Len(in.items) : Preserved(in.items[i], out.items[i])
      [] OTHER -> out = in

\* a category: every item of the output is made of an element of the input
\* (deduplication may have dropped elements, but not all of them)
CategoryKept(elements, out) ==
    /\ out.kind = "arr"
    /\ Len(out.items) = 0 <=> Len(elements) = 0
    /\ \A j \in 1..Len(out.items) : \E i \in 1..Len(elements) :
          ElementKept(elements[i], out.items[j])

\* an item made of an element: the element's other keys with their cleaned
\* values (the image URL has its own rule)
ElementKept(e, item) ==
    /\ e.kind = "obj" /\ item.kind = "obj"
    /\ \A k \in DOMAIN e.f : ~StrippedKey(k) =>
          /\ k \in DOMAIN item.f
          /\ \/ k = "ImageUrl"
             \/ IF IsArray(e.f[k]) THEN CategoryKept(e.f[k].items, item.f[k])
                ELSE Preserved(e.f[k], item.f[k])

AppliedKey == CHOOSE k \in DOMAIN ret.f : TRUE
AppliedElements == arg.data.f[AppliedKey].items
\* processArrayField has returned the items of a category
ItemsReturned == op = "processArrayField" /\ IsArray(ret.f[AppliedKey])
\* and deduplication has dropped none, so that item i is made of element i
AllItemsReturned ==
    ItemsReturned /\ Len(ret.f[AppliedKey].items) = Len(AppliedElements)

\* C14: every element of an array-valued category is wrapped into an item
\* whose Title is the category key, also when the element has a Title of its
\* own.
C14_TitleIsCategoryKey ==
    ItemsReturned =>
        \A j \in 1..Len(ret.f[AppliedKey].items) :
            Lookup(ret.f[AppliedKey].items[j], "Title") = JStr(AppliedKey)

\* image URLs and what is left of them when everything from the first "?" on
\* is removed
WithoutQuery ==
    [t \in ImageUrlTexts |->
        CASE t \in {"img.png", "img.png?w=1", "img.png?w=1?h=2", "img.png?"} -> "img.png"
          [] OTHER -> ""]

\* the image URL an element should get
ExpectedImageUrl(e) ==
    IF ~HasKey(e, "ImageUrl") \/ e.f["ImageUrl"].kind /= "str" THEN ""
    ELSE WithoutQuery[e.f["ImageUrl"].s]

\* C15: every normalized item has an ImageUrl: the empty string when the
\* element had none, else the element's value up to its first "?".
C15_ImageUrlDefaultedOrStripped ==
    /\ ItemsReturned =>
          \A j \in 1..Len(ret.f[AppliedKey].items) :
              Lookup(ret.f[AppliedKey].items[j], "ImageUrl").kind = "str"
    /\ AllItemsReturned =>
          \A j \in 1..Len(AppliedElements) :
              ret.f[AppliedKey].items[j].f["ImageUrl"]
                  = JStr(ExpectedImageUrl(AppliedElements[j]))

C15_Witness ==
    /\ op = "processArrayField"
    /\ arg.data = JObj([Headlines |->
                          JArr(<<JObj([Link |-> JStr("l1"), ImageUrl |-> JStr("img.png?w=1?h=2")]),
                                 JObj([Title |-> JStr("A"), Link |-> JStr("l1"),
                                       Position |-> JStr("1")])>>)])
    /\ Len(ret.f["Headlines"].items) = 2
    /\ ret.f["Headlines"].items[1].f["ImageUrl"] = JStr("img.png")
    /\ ret.f["Headlines"].items[2].f["ImageUrl"] = JStr("")

\* month-day ranges written "Mon d (Day) - Mon d (Day)" and the dates they name
RangeDates ==
    [t \in {"Jun 13 (Fri) - Jun 23 (Mon)", "May 28 (Wed) - May 31 (Sat)"} |->
        IF t = "Jun 13 (Fri) - Jun 23 (Mon)"
        THEN [start |-> currentYear \o "-06-13", end |-> currentYear \o "-06-23"]
        ELSE [start |-> currentYear \o "-05-28", end |-> currentYear \o "-05-31"]]

\* the element carries an EventDate of that form
HasRange(e) ==
    /\ HasKey(e, "EventDate") /\ e.f["EventDate"].kind = "str"
    /\ e.f["EventDate"].s \in DOMAIN RangeDates

\* C16: on a recognized site, an item whose EventDate is a range written
\* "Jun 13 (Fri) - Jun 23 (Mon)" gets StartDate = the current year with the
\* first month and day and EndDate = the current year with the second month
\* and day.
C16_RangeGivesStartAndEnd ==
    (AllItemsReturned /\ arg.docName = "olemisssports.com") =>
        \A j \in 1..Len(AppliedElements) :
            HasRange(AppliedElements[j]) =>
                /\ Lookup(ret.f[AppliedKey].items[j], "StartDate")
                      = JStr(RangeDates[AppliedElements[j].f["EventDate"].s].start)
                /\ Lookup(ret.f[AppliedKey].items[j], "EndDate")
                      = JStr(RangeDates[AppliedElements[j].f["EventDate"].s].end)

\* the uid values processArrayField can generate for its category: the slug
\* of the key, a reading of the clock, an index of the batch
GeneratedUids ==
    {JStr(SlugOf(AppliedKey) \o "-" \o ToString(now) \o "-" \o ToString(i - 1)) :
        now \in Times, i \in 1..Len(AppliedElements)}

\* C30: the items processArrayField returns for a category carry pairwise
\* distinct uid values, each built from the category name, the clock reading
\* and the index of the item in the batch.
C30_UidsDistinctAndGenerated ==
    ItemsReturned =>
        /\ \A j \in 1..Len(ret.f[AppliedKey].items) :
              Lookup(ret.f[AppliedKey].items[j], "uid") \in GeneratedUids
        /\ \A i, j \in 1..Len(ret.f[AppliedKey].items) :
              i /= j => Lookup(ret.f[AppliedKey].items[i], "uid")
                            /= Lookup(ret.f[AppliedKey].items[j], "uid")

---------------------------------------------------------------------------
(* Properties of the webhook pipeline (Spec): enrichment, malformed bodies, *)
(* new documents, store failures                                           *)

\* EventDate texts in which datePattern finds no month and day
UnparsableDates == {"TBD"}

\* the elements of the call's lists section, under category k, whose EventDate
\* cannot be parsed
UnparsableElements(c, k) ==
    {i \in 1..Len(calls[c].payload.capturedLists.f[k].items) :
        LET e == calls[c].payload.capturedLists.f[k].items[i]
        IN HasKey(e, "EventDate") /\ e.f["EventDate"] \in {JStr(d) : d \in UnparsableDates}}

\* the call carries such an element
HasUnparsableDate(c) ==
    /\ calls[c].pc /= "idle" /\ calls[c].payload.task
    /\ \E k \in ArraysOfSection(calls[c].payload.capturedLists) : UnparsableElements(c, k) /= {}

\* the document holds, under category k, an item with that EventDate and
\* neither StartDate nor EndDate
HoldsUndated(doc, k, date) ==
    \E j \in 1..Len(ItemsOf(doc, k)) :
        /\ Lookup(ItemsOf(doc, k)[j], "EventDate") = date
        /\ ~HasKey(ItemsOf(doc, k)[j], "StartDate")
        /\ ~HasKey(ItemsOf(doc, k)[j], "EndDate")

\* C17: when an item's EventDate cannot be parsed, no exception leaves the
\* enrichment step (the request does not fail with a TypeError), the item is
\* put in the document to write with its EventDate and with neither StartDate
\* nor EndDate, and, the store accepting the commit, the request answers 200.
C17_UnparsableDateIsSkipped ==
    \A c \in Calls : HasUnparsableDate(c) =>
        /\ calls[c].error /= "TypeError"
        /\ calls[c].pc = "done" => calls[c].status = 200
        /\ calls[c].pc \in {"commit", "done"} =>
              \A k \in ArraysOfSection(calls[c].payload.capturedLists) :
                  \A i \in UnparsableElements(c, k) :
                      HoldsUndated(calls[c].batch["captured_lists"], k,
                                   calls[c].payload.capturedLists.f[k].items[i].f["EventDate"])

C17_Witness ==
    \E c \in Calls :
        /\ HasUnparsableDate(c) /\ calls[c].docName = "olemisssports.com"
        /\ calls[c].pc = "done" /\ calls[c].status = 200
        /\ HoldsUndated(store["captured_lists"]["olemisssports.com"], "Schedule", JStr("TBD"))

\* C18: a body without task does not fail the request: it is processed under
\* the origin URL and document key "unknown" and answered with success.
C18_NoTaskDegrades ==
    \A c \in Calls : (calls[c].webhookId = "browseAI" /\ ~calls[c].payload.task) =>
        /\ calls[c].pc /= "failed"
        /\ calls[c].status /= 500
        /\ calls[c].docName = "unknown" /\ calls[c].originUrl = UnknownUrl

RECURSIVE StripFields(_)
\* a value without the stripped keys, at every depth
StripFields(v) ==
    CASE v.kind = "obj" ->
            JObj([k \in {x \in DOMAIN v.f : ~StrippedKey(x)} |-> StripFields(v.f[k])])
      [] v.kind = "arr" -> JArr([i \in 1..Len(v.items) |-> StripFields(v.items[i])])
      [] OTHER -> v

\* the normalized section of a call: its categories as deduplicated items, its
\* other values without the stripped keys
Normalized(c, coll) ==
    LET section == sectionOf(calls[c].payload, coll)
    IN JObj([k \in {x \in DOMAIN section.f : ~StrippedKey(x)} |->
                IF IsArray(section.f[k]) THEN JArr(deduplicateItems(NewItems(c, coll, k)))
                ELSE IF section.f[k].kind = "obj" /\ ArraysOfSection(section.f[k]) /= {}
                THEN calls[c].processed[coll].f[k]
                ELSE StripFields(section.f[k])])

\* C19: when the call found no document for its key, the document it writes is
\* exactly { data: normalized }, normalized being the cleaned and
\* within-batch-deduplicated section.
C19_NewDocumentIsData ==
    \A c \in Calls, coll \in MergedCollections :
        (calls[c].batch[coll] /= NoWrite /\ calls[c].snapshot[coll] = NoDoc)
            => calls[c].batch[coll] = JObj([data |-> Normalized(c, coll)])

C19_Witness ==
    \E c \in Calls :
        /\ calls[c].pc = "done" /\ calls[c].snapshot["captured_lists"] = NoDoc
        /\ calls[c].payload.task
        /\ HasKey(calls[c].payload.capturedLists, "Headlines")
        /\ IsArray(calls[c].payload.capturedLists.f["Headlines"])
        /\ Len(calls[c].payload.capturedLists.f["Headlines"].items) = 2
        /\ HasKey(store["captured_lists"][calls[c].docName], "data")
        /\ store["captured_lists"][calls[c].docName] = calls[c].batch["captured_lists"]
        /\ DOMAIN store["captured_lists"][calls[c].docName].f = {"data"}
        /\ DOMAIN store["captured_lists"][calls[c].docName].f["data"].f = {"Headlines"}
        /\ Len(ItemsOf(store["captured_lists"][calls[c].docName], "Headlines")) = 1

\* the step is the rejection of the store operation call c awaits
RejectedStep(c) ==
    /\ calls[c].pc \in {"getTexts", "getLists", "commit"}
    /\ calls'[c].pc = "failed" /\ calls'[c].error = StoreMessage

\* C20: when the store rejects a get or the commit of a call, the call answers
\* 500 with the message of the rejection, no document of any collection is
\* changed by it, and the failed call takes no further step: nothing is
\* retried.
C20_StoreFailureIs500 ==
    [][\A c \in Calls :
          /\ RejectedStep(c) =>
                /\ calls'[c].status = 500 /\ calls'[c].error = StoreMessage
                /\ store' = store
          /\ calls[c].pc = "failed" => calls'[c] = calls[c]]_vars

C20_Witness ==
    \E c \in Calls :
        /\ calls[c].pc = "failed" /\ calls[c].status = 500 /\ calls[c].error = StoreMessage
        /\ calls[c].batch["captured_lists"] /= NoWrite
        /\ store["captured_lists"][calls[c].docName] = NoDoc

---------------------------------------------------------------------------
(* Properties of the webhook pipeline (Spec): responses and frame *)

\* the messages an error caught by the route can carry
ErrorMessages == {"TypeError", StoreMessage, UnsupportedMessage}

\* the call was answered with success: status 200 and exactly the members
\* success, message and docName, docName being the key derived from the body
AnsweredSuccess(c) ==
    /\ calls[c].status = 200
    /\ DOMAIN calls[c].body = {"success", "message", "docName"}
    /\ calls[c].body.success = TRUE
    /\ calls[c].body.docName = webhookDocName(calls[c].payload.params, calls[c].payload.url)

\* the call was answered with failure: status 500, success false and the
\* message of the error
AnsweredFailure(c) ==
    /\ calls[c].status = 500
    /\ {"success", "error"} \subseteq DOMAIN calls[c].body
    /\ calls[c].body.success = FALSE
    /\ calls[c].body.error \in ErrorMessages /\ calls[c].body.error = calls[c].error

HasSection(p, coll) == p.task /\ sectionOf(p, coll) /= JUndef

\* the step is the commit of call c
CommitStep(c) == calls[c].pc = "commit" /\ calls'[c].pc = "done"

\* every document the step changes has the key of the committing call and
\* lies in a collection whose section the call's body carries
ChangesOwnDocuments ==
    \A coll \in Collections, d \in DocNames :
        store'[coll][d] /= store[coll][d] =>
            \E c \in Calls :
                /\ CommitStep(c)
                /\ d = webhookDocName(calls[c].payload.params, calls[c].payload.url)
                /\ HasSection(calls[c].payload, coll)

\* the commit of a body without sections changes no document
EmptyBodyWritesNothing ==
    \A c \in Calls :
        (CommitStep(c) /\ \A coll \in Collections : ~HasSection(calls[c].payload, coll))
            => store' = store

\* C27: a document of the store changes only in the commit of a call whose
\* derived key is the key of the document and whose body carries the section
\* of the document's collection; the commit of a body without any of the
\* three sections changes nothing.
C27_WritesOnlyOwnKeyAndSections ==
    [][ChangesOwnDocuments /\ EmptyBodyWritesNothing]_vars

C27_Witness ==
    \E c, e \in Calls :
        /\ calls[c].pc = "done" /\ calls[c].docName = "espn.com"
        /\ HasSection(calls[c].payload, "captured_texts")
        /\ ~HasSection(calls[c].payload, "captured_screenshots")
        /\ ~HasSection(calls[c].payload, "captured_lists")
        /\ store["captured_texts"]["espn.com"] = calls[c].batch["captured_texts"]
        /\ calls[e].pc = "done" /\ \A coll \in Collections : ~HasSection(calls[e].payload, coll)
        /\ \A col \in Collections, k \in DocNames :
              store[col][k] /= NoDoc => (col = "captured_texts" /\ k = "espn.com")

---------------------------------------------------------------------------
(* Properties of document administration beside the pipeline (SpecAdmin) *)

\* the administrative request being served, if any, awaits its delete()
AwaitsDelete == IF op = "deleteDocumentById" THEN arg.pc = "delete" ELSE FALSE

\* the step serves a new request for the document and answers it at once,
\* the store having resolved its get()
AnswersAtOnce(collection, documentId) ==
    /\ AdminReady /\ op' /= "none" /\ arg' /= arg
    /\ arg'.pc = "answered" /\ ~ret'.rejected
    /\ arg'.collection = collection /\ arg'.documentId = documentId

\* the step is the delete() of the request being served
DeleteStep == AwaitsDelete /\ arg'.pc = "answered" /\ ~ret'.rejected

\* a request by id for a missing document is answered 404 and changes nothing
MissingIsNotFound ==
    \A t \in AdminTargets :
        (AnswersAtOnce(t[1], t[2]) /\ store[t[1]][t[2]] = NoDoc) =>
            /\ ret'.status = 404 /\ ret'.body = [error |-> "Document not found"]
            /\ store' = store

\* the delete() of an existing document removes that document and no other,
\* and is answered with success
DeleteRemovesOne ==
    DeleteStep =>
        /\ store[arg.collection][arg.documentId] /= NoDoc
        /\ store'[arg.collection][arg.documentId] = NoDoc
        /\ \A coll \in Collections, d \in DocNames :
              (coll /= arg.collection \/ d /= arg.documentId) => store'[coll][d] = store[coll][d]
        /\ ret'.status = 200 /\ ret'.body.success = TRUE

\* C22: fetching or deleting by id a document that does not exist is answered
\* 404 (no exception, no 500) and leaves the store unchanged; deleting an
\* existing document removes exactly that document.
C22_MissingIs404DeleteRemovesOne ==
    [][MissingIsNotFound /\ DeleteRemovesOne]_vars

C22_Witness ==
    /\ op = "deleteDocumentById" /\ arg.pc = "answered" /\ arg.n = 2
    /\ arg.collection = "captured_lists" /\ arg.documentId = "espn.com"
    /\ ret.status = 404 /\ ~ret.rejected
    /\ store["captured_lists"]["espn.com"] = NoDoc
    /\ store["captured_texts"]["espn.com"] /= NoDoc
    /\ \E c \in Calls : calls[c].pc = "done" /\ calls[c].batch["captured_lists"] /= NoWrite

\* C25: a stored document is removed only by an administrative delete: in
\* every step in which a document that exists ceases to exist, the step is
\* the delete() of a deleteDocumentById request for that document; webhook
\* calls and reads never remove one.
C25_RemovedOnlyByDelete ==
    [][\A coll \in Collections, d \in DocNames :
          (store[coll][d] /= NoDoc /\ store'[coll][d] = NoDoc) =>
              (DeleteStep /\ arg.collection = coll /\ arg.documentId = d)]_vars

C25_Witness ==
    /\ op = "fetchDocumentById" /\ arg.n = MaxAdmin /\ ret.status = 200
    /\ \A c \in Calls : calls[c].pc = "done"
    /\ \E c \in Calls :
          /\ calls[c].commitNo = 1 /\ calls[c].batch["captured_lists"] /= NoWrite
          /\ store["captured_lists"]["espn.com"] = calls[c].batch["captured_lists"]
    /\ store["captured_texts"]["espn.com"] /= NoDoc

\* a successful delete has been answered, no webhook call has started since,
\* and the calls that were in flight when the document was removed have ended
DeletedAndSettled ==
    IF op /= "deleteDocumentById" THEN FALSE
    ELSE /\ arg.pc = "answered" /\ ret.status = 200 /\ ret.removed /= NoDoc
         /\ \A c \in ret.notStarted : calls[c].pc = "idle"
         /\ \A c \in ret.inFlight : calls[c].pc \in {"done", "failed"}

\* the items of a sequence
ItemSet(items) == {items[j] : j \in 1..Len(items)}

\* the items call c itself made of category k of its section for the
\* collection (none when its body has no such category)
OwnItems(c, coll, k) ==
    IF HasSection(calls[c].payload, coll)
       /\ HasKey(sectionOf(calls[c].payload, coll), k)
       /\ IsArray(sectionOf(calls[c].payload, coll).f[k])
    THEN ItemSet(NewItems(c, coll, k))
    ELSE {}

\* C26: after a successful delete and the end of the webhook calls that were
\* in flight, the document holds no item it held before the delete, other
\* than items those calls made of their own bodies: a call that read the
\* document before the delete does not write its contents back.
C26_DeletedItemsStayDeleted ==
    DeletedAndSettled =>
        \A k \in ArrayCategories(ret.removed) :
            (ItemSet(ItemsOf(store[arg.collection][arg.documentId], k))
                \cap ItemSet(ItemsOf(ret.removed, k)))
                    \subseteq UNION {OwnItems(c, arg.collection, k) : c \in ret.inFlight}

---------------------------------------------------------------------------
(* Properties of the strict variant (SpecStrict) *)

\* C23: in the strict variant a body whose task has no id (or that has no
\* task) fails with the error "Task ID is required", answered 500, before any
\* store read is made or any write is staged.
C23_TaskIdRequiredBeforeStore ==
    \A c \in Calls :
        (calls[c].pc /= "idle" /\ ~hasTaskId(calls[c].payload)) =>
            /\ calls[c].pc = "failed" /\ calls[c].status = 500
            /\ calls[c].error = "Task ID is required"
            /\ calls[c].reads = 0
            /\ \A coll \in Collections : calls[c].batch[coll] = NoWrite

C23_Witness ==
    \E c, d \in Calls :
        /\ calls[c].pc = "failed" /\ calls[c].error = "Task ID is required"
        /\ calls[c].payload.task /\ calls[c].payload.id = JUndef
        /\ Truthy(calls[c].payload.capturedTexts) /\ Truthy(calls[c].payload.capturedLists)
        /\ calls[d].pc = "done" /\ calls[d].taskId = "t1" /\ calls[d].reads = 1
        /\ store["captured_texts"]["t1"] /= NoDoc /\ store["captured_lists"]["espn"] /= NoDoc
        /\ \A coll \in Collections : store[coll]["unknown"] = NoDoc

---------------------------------------------------------------------------
(* Properties of category reading (SpecFetch) *)

\* the date key of an item: publishedDate if present, else createdAt, else
\* createdAtFormatted, else 0
DateKey(item) ==
    IF HasKey(item, "publishedDate") THEN item.f["publishedDate"]
    ELSE IF HasKey(item, "createdAt") THEN item.f["createdAt"]
    ELSE IF HasKey(item, "createdAtFormatted") THEN item.f["createdAtFormatted"]
    ELSE JNum(0)

\* the date key is a number or a timestamp
NumericKey(item) == DateKey(item).kind \in {"num", "timestamp"}

\* the value of a numeric date key, a timestamp by its milliseconds
KeyMillis(item) == IF DateKey(item).kind = "timestamp" THEN DateKey(item).ms ELSE DateKey(item).n

\* the day a date text names, counted in days of the year 2025
DayOfText(s) == CASE s = "2025-01-01" -> 1
                  [] s = "2025-06-01" -> 152
                  [] s = "January 1, 2025 9:00 AM" -> 1

\* a comes no later than b would allow in a newest-first order: two numeric
\* keys by their values, two date texts by their days; a numeric key and a
\* date text are left uncompared
NewestFirst(a, b) ==
    IF NumericKey(a) /\ NumericKey(b) THEN KeyMillis(a) >= KeyMillis(b)
    ELSE IF ~NumericKey(a) /\ ~NumericKey(b) THEN DayOfText(DateKey(a).s) >= DayOfText(DateKey(b).s)
    ELSE TRUE

\* the stored items of the category that was read
StoredCategory == store[arg.collection][arg.documentId].f["data"].f[arg.categoryName].items

FetchedCategory == op = "fetchCategoryData" /\ ret.success

\* C24: a successful fetchCategoryData returns the stored items of the
\* category, each exactly once, newest first by the date key (publishedDate,
\* else createdAt, else createdAtFormatted, else 0; timestamps by their
\* milliseconds), and the stored document is as it was.
C24_CategorySortedByDateKey ==
    FetchedCategory /\ ret.count > 0 =>
        /\ Len(ret.data) = Len(StoredCategory)
        /\ \A i \in 1..Len(StoredCategory) :
               Cardinality({j \in 1..Len(ret.data) : ret.data[j] = StoredCategory[i]}) = 1
        /\ \A i, j \in 1..Len(ret.data) : i < j => NewestFirst(ret.data[i], ret.data[j])

---------------------------------------------------------------------------
(* Properties of the webhook registry and the trigger (SpecRegistry) *)

RECURSIVE Survivors(_)
\* what a log of answered requests leaves registered: the registrations
\* answered 201 that no later delete answered 200 names, with the url and
\* events of their request
Survivors(log) ==
    IF log = <<>> THEN <<>>
    ELSE LET before == Survivors(SubSeq(log, 1, Len(log) - 1))
             last == log[Len(log)]
             Kept(entry) == entry.id /= last.webhookId
         IN IF last.request = "register" /\ last.status = 201
            THEN Append(before, [id |-> last.webhookId, url |-> last.body.url,
                                 events |-> last.body.events])
            ELSE IF last.request = "delete" /\ last.status = 200
            THEN SelectSeq(before, Kept)
            ELSE before

Elements(xs) == {xs[i] : i \in 1..Len(xs)}

\* the registry holds what the log leaves registered
RegistryFollowsLog ==
    /\ Len(store) = Len(Survivors(calls.log))
    /\ {[id |-> e.id, url |-> e.url, events |-> e.events] : e \in Elements(store)}
           = Elements(Survivors(calls.log))

\* the last listing returned what the log leaves registered, and no more
ListingFollowsLog ==
    op = "list" =>
        /\ ret.status = 200
        /\ Len(ret.body) = Len(Survivors(calls.log))
        /\ Elements(ret.body) = Elements(Survivors(calls.log))

\* a registration without url, without events or with events that are no
\* array was answered 400; a delete of an id not registered then was
\* answered 404
RefusalsAnswered ==
    \A i \in 1..Len(calls.log) :
        LET entry == calls.log[i]
            known == {e.id : e \in Elements(Survivors(SubSeq(calls.log, 1, i - 1)))}
        IN IF entry.request = "register"
           THEN (entry.body.url \in {JUndef, JStr("")} \/ entry.body.events.kind /= "arr")
                    => entry.status = 400
           ELSE entry.webhookId \notin known => entry.status = 404

\* C28: after any sequence of registrations and deletions the registry, and
\* a listing of it, holds exactly the ids registered and not since deleted,
\* each with its url and events and without its secret; an invalid
\* registration is answered 400 and a delete of an unknown id 404, and
\* neither changes the registry.
C28_ListingIsRegisteredMinusDeleted ==
    RegistryFollowsLog /\ ListingFollowsLog /\ RefusalsAnswered

\* a listing of one webhook after two registrations and a delete
C28_Witness ==
    /\ op = "list" /\ Len(ret.body) = 1
    /\ \E i, j \in 1..Len(calls.log) :
          /\ i < j
          /\ calls.log[i].request = "register" /\ calls.log[i].status = 201
          /\ calls.log[j].request = "delete" /\ calls.log[j].status = 200
          /\ calls.log[j].webhookId = calls.log[i].webhookId

\* the ids of the webhooks registered when the trigger arrived whose events
\* hold the event
Subscribers(registry, event) ==
    {e.id : e \in {x \in Elements(registry) : event \in Elements(x.events.items)}}

\* the trigger body lacks its event or its data
LacksEventOrData(body) ==
    body.event \in {JUndef, JNull, JStr("")} \/ body.data \in {JUndef, JNull, JStr("")}

\* the result of delivery i reports outcome i of its own webhook
ReportsOwnOutcome(t, i) ==
    /\ t.results[i].webhookId = t.targets[i].id
    /\ IF t.outcomes[i].kind = "throw"
       THEN t.results[i].status = 500 /\ ~t.results[i].success
       ELSE /\ t.results[i].status = t.outcomes[i].status
            /\ t.results[i].success = (t.outcomes[i].status = 200)

TriggerDelivered(t) ==
    /\ Len(t.targets) = Cardinality(Subscribers(t.registry, t.body.event))
    /\ {t.targets[i].id : i \in 1..Len(t.targets)} = Subscribers(t.registry, t.body.event)
    /\ t.pc = "answered" =>
          /\ t.answer.status = 200
          /\ t.answer.body.triggered = Cardinality(Subscribers(t.registry, t.body.event))
          /\ Len(t.answer.body.results) = t.answer.body.triggered
          /\ t.answer.body.results = t.results
          /\ \A i \in 1..Len(t.targets) : ReportsOwnOutcome(t, i)

TriggerRefused(t) ==
    /\ t.pc = "answered" /\ t.answer.status = 400
    /\ t.targets = <<>> /\ t.outcomes = <<>>

\* C29: a trigger delivers to exactly the webhooks registered at its arrival
\* whose events hold its event, answers one result per such webhook with
\* triggered their number, reports a delivery that threw as status 500 with
\* success false while every other delivery is made and reported by its own
\* outcome; a trigger without event or data is answered 400 and delivers
\* nothing.
C29_TriggerDeliversToSubscribers ==
    calls.trigger.pc /= "none" =>
        IF LacksEventOrData(calls.trigger.body)
        THEN TriggerRefused(calls.trigger)
        ELSE TriggerDelivered(calls.trigger)

\* an answered trigger with three webhooks registered, two of them
\* subscribed: one delivery threw, the other was answered 200
C29_Witness ==
    /\ calls.trigger.pc = "answered"
    /\ Len(calls.trigger.registry) = 3 /\ Len(calls.trigger.targets) = 2
    /\ \E i, j \in 1..2 :
          /\ calls.trigger.outcomes[i] = Thrown
          /\ calls.trigger.outcomes[j] = Response(200)
          /\ calls.trigger.results[j].success

---------------------------------------------------------------------------
(* Properties of key derivation (SpecKey) *)

\* the key the specification gives a well-formed URL: its last two host labels
\* (as the URL parser lower-cases them) joined by "."
LastTwoLabels(labels) ==
    LowerToken(labels[Len(labels) - 1]) \o "." \o LowerToken(labels[Len(labels)])

WithDefaultScheme(url) == UStr(<<"https://">> \o url.toks)

\* C11: a URL given without a scheme is parsed as if a default scheme were
\* prepended: whenever the text parses behind "https://", its key is the key
\* of the URL with that scheme.
C11_SchemelessParsedWithDefaultScheme ==
    (/\ op \in {"extractDomainIdentifier", "webhookDocName"}
     /\ arg.from = "schemeless"
     /\ ParseURL(WithDefaultScheme(arg.url).toks).ok)
        => ret = extractDomainIdentifier(WithDefaultScheme(arg.url))

\* C12: for a URL whose host is an IPv4 literal or a single label, the derived
\* key is the whole host.
C12_IpOrSingleLabelHostAsIs ==
    (op \in {"extractDomainIdentifier", "webhookDocName"} /\ arg.from \in {"ip", "single"})
        => ret = Text(DottedHost(arg.labels))

---------------------------------------------------------------------------
(* Properties of deduplication (SpecDedup) *)

\* the elements of xs at the indices in keep, in order
AtIndices(xs, keep) ==
    LET F[i \in 0..Len(xs)] ==
            IF i = 0 THEN <<>>
            ELSE IF i \in keep THEN Append(F[i - 1], xs[i]) ELSE F[i - 1]
    IN F[Len(xs)]

\* the indices of the first occurrence of each dedup key
FirstOccurrences(xs) ==
    {i \in 1..Len(xs) :
        \A j \in 1..(i - 1) : generateItemKey(xs[j]) /= generateItemKey(xs[i])}

DistinctKeys(xs) ==
    \A i, j \in 1..Len(xs) : i /= j => generateItemKey(xs[i]) /= generateItemKey(xs[j])

\* C6: deduplicateItems returns the subsequence made of the first occurrence of
\* each dedup key, in input order; its keys are pairwise distinct and a second
\* application changes nothing.
C6_DedupKeepsFirstOccurrences ==
    op = "deduplicateItems" =>
        /\ ret = AtIndices(arg.items, FirstOccurrences(arg.items))
        /\ DistinctKeys(ret)
        /\ deduplicateItems(ret) = ret

C6_Witness ==
    /\ op = "deduplicateItems"
    /\ Len(arg.items) = 3 /\ Len(ret) = 2
    /\ generateItemKey(arg.items[1]) = generateItemKey(arg.items[3])
    /\ arg.items[1] /= arg.items[3]
    /\ ret = <<arg.items[1], arg.items[2]>>

\* the item has none of the key fields
CarriesNoKeyField(item) == \A i \in 1..Len(keyFields) : ~HasKey(item, keyFields[i])

\* C8: items that carry none of the key fields have the empty dedup key and are
\* never deduplicated against each other: a batch of such items keeps them all.
C8_KeylessItemsAllKept ==
    (op = "deduplicateItems" /\ \A i \in 1..Len(arg.items) : CarriesNoKeyField(arg.items[i]))
        => /\ \A i \in 1..Len(arg.items) : generateItemKey(arg.items[i]) = ""
           /\ ret = arg.items

====
